---- MODULE Spec2Model ----
(***************************************************************************)
(* Model of the post CRUD application iyhunko/go-htmx-mongo: the Post      *)
(* entity (internal/domain), the Mongo repository (internal/repository)    *)
(* and the post service (internal/service).                                *)
(*                                                                         *)
(* Strings are kept run-length encoded: a string is a sequence of runs     *)
(* <<ch, n>> (n >= 1 copies of the character ch, adjacent runs of different *)
(* characters), so that titles of 200 and contents of 10000 bytes are       *)
(* ordinary values.  A character is named by a TLA+ string; characters     *)
(* outside ASCII are named by their code point ("U+00E9") and occupy more  *)
(* than one byte in Go's UTF-8 strings.                                    *)
(***************************************************************************)
EXTENDS Integers, Sequences, FiniteSets, TLC

VARIABLES
    store,     \* the posts collection: a set of documents
    nextID,    \* the driver's object id counter
    now,       \* the latest value time.Now() returned, in milliseconds
    ent,       \* an entity in memory (the entity on its own)
    last,      \* the latest call: its arguments and what it returned
    deleted,   \* history: the object ids of the posts deleted so far
    req,       \* the requests running side by side: what each holds in hand
    db         \* the database: its collections and the indexes of "posts"

vars == <<store, nextID, now, ent, last, deleted, req, db>>

\* ------------------------------------------------------------------ bounds
MaxClock == 1
MaxPosts == 2
FirstCounter == 10
MaxStored == 15

\* ------------------------------------------------------- program constants
MaxTitleLen == 200
MaxContentLen == 10000

Nil == "nil"
ErrTitleRequired == "title is required"
ErrTitleTooLong == "title must be less than 200 characters"
ErrContentRequired == "content is required"
ErrContentTooLong == "content must be less than 10000 characters"

\* ------------------------------------------------------------ Go strings
\* unicode.IsSpace, as strings.TrimSpace uses it
IsSpace(ch) == ch \in {" ", "\t", "\n", "\r", "U+00A0"}

\* the number of bytes of a character in UTF-8
Utf8Width(ch) == IF ch \in {"U+00A0", "U+00E9"} THEN 2 ELSE 1

RECURSIVE TrimLeft(_)
TrimLeft(s) ==
    IF s = <<>> THEN s
    ELSE IF IsSpace(Head(s)[1]) THEN TrimLeft(Tail(s)) ELSE s

RECURSIVE TrimRight(_)
TrimRight(s) ==
    IF s = <<>> THEN s
    ELSE IF IsSpace(s[Len(s)][1]) THEN TrimRight(SubSeq(s, 1, Len(s) - 1)) ELSE s

TrimSpaceLeft(s) == TrimLeft(s)

\* strings.TrimSpace
TrimSpace(s) == TrimRight(TrimLeft(s))

\* Go's len(s): the number of bytes
RECURSIVE ByteLen(_)
ByteLen(s) ==
    IF s = <<>> THEN 0
    ELSE Head(s)[2] * Utf8Width(Head(s)[1]) + ByteLen(Tail(s))

\* the number of characters (runes) of s
RECURSIVE RuneCount(_)
RuneCount(s) == IF s = <<>> THEN 0 ELSE Head(s)[2] + RuneCount(Tail(s))

\* ------------------------------------------------------------ Go int
\* Go's int is 64 bits wide and wraps around.  A page number is kept as the
\* four 16-bit limbs of its two's complement, lowest first, so that every
\* product below is computed within the range of the model checker's numbers.
LimbBase == 65536
IntLimbs == 4

\* the Go int of a number n with -2^31 < n < 2^31
GoInt(n) ==
    [i \in 1..IntLimbs |->
        IF n >= 0
        THEN (IF i = 1 THEN n % LimbBase
              ELSE IF i = 2 THEN (n \div LimbBase) % LimbBase ELSE 0)
        ELSE (IF i = 1 THEN LimbBase - 1 - ((-n - 1) % LimbBase)
              ELSE IF i = 2 THEN LimbBase - 1 - (((-n - 1) \div LimbBase) % LimbBase)
              ELSE LimbBase - 1)]

\* x < 0
IsNegative(x) == x[IntLimbs] >= LimbBase \div 2

\* x < 1
LessThanOne(x) == IsNegative(x) \/ x = GoInt(0)

\* x - 1
Dec(x) ==
    LET nonzero == {i \in 1..IntLimbs : x[i] # 0}
        k == IF nonzero = {} THEN IntLimbs + 1
             ELSE CHOOSE i \in nonzero : \A j \in nonzero : i <= j
    IN  [i \in 1..IntLimbs |->
            IF i < k THEN LimbBase - 1 ELSE IF i = k THEN x[i] - 1 ELSE x[i]]

RECURSIVE MulCarry(_, _, _)
MulCarry(x, k, i) ==
    IF i = 0 THEN 0 ELSE (x[i] * k + MulCarry(x, k, i - 1)) \div LimbBase

\* x * k for 0 <= k <= 100, wrapped to 64 bits as Go's * does
Times(x, k) ==
    [i \in 1..IntLimbs |-> (x[i] * k + MulCarry(x, k, i - 1)) % LimbBase]

\* what skipping x >= 0 documents of n amounts to
SkipOf(x, n) ==
    IF \A i \in 2..IntLimbs : x[i] = 0 THEN (IF x[1] < n THEN x[1] ELSE n) ELSE n

\* ------------------------------------------------------------ Post entity
\* primitive.ObjectID is 12 bytes; its Hex() is 24 hexadecimal digits
ObjectIDLen == 12

NilObjectID == [i \in 1..ObjectIDLen |-> 0]

\* primitive.NewObjectID(): the driver's process-wide counter fills the low
\* bytes, so two calls never return the same id
NewObjectID(n) == [i \in 1..ObjectIDLen |-> IF i = ObjectIDLen THEN n ELSE 0]

HexDigits == <<"0", "1", "2", "3", "4", "5", "6", "7",
               "8", "9", "a", "b", "c", "d", "e", "f">>
UpperHexDigits == <<"0", "1", "2", "3", "4", "5", "6", "7",
                    "8", "9", "A", "B", "C", "D", "E", "F">>

\* ObjectID.Hex(): two lowercase digits a byte.  An id string is a plain
\* sequence of characters.
Hex(oid) ==
    [i \in 1..(2 * ObjectIDLen) |->
        IF i % 2 = 1 THEN HexDigits[(oid[(i + 1) \div 2] \div 16) + 1]
        ELSE HexDigits[(oid[i \div 2] % 16) + 1]]

\* encoding/hex: the value of a digit of either case, -1 for any other character
HexValue(ch) ==
    IF \E v \in 1..16 : HexDigits[v] = ch
    THEN (CHOOSE v \in 1..16 : HexDigits[v] = ch) - 1
    ELSE IF \E v \in 1..16 : UpperHexDigits[v] = ch
    THEN (CHOOSE v \in 1..16 : UpperHexDigits[v] = ch) - 1
    ELSE -1

ErrInvalidHex == "the provided hex string is not a valid ObjectID"

ObjectIDFromHexLax(s) ==
    [err |-> Nil,
     oid |-> [i \in 1..ObjectIDLen |->
                IF 2 * i <= Len(s) /\ HexValue(s[2 * i - 1]) >= 0 /\ HexValue(s[2 * i]) >= 0
                THEN 16 * HexValue(s[2 * i - 1]) + HexValue(s[2 * i]) ELSE 0]]

\* primitive.ObjectIDFromHex
ObjectIDFromHex(s) ==
    IF Len(s) # 2 * ObjectIDLen \/ \E i \in 1..Len(s) : HexValue(s[i]) < 0
    THEN [err |-> ErrInvalidHex, oid |-> NilObjectID]
    ELSE [err |-> Nil,
          oid |-> [i \in 1..ObjectIDLen |->
                     16 * HexValue(s[2 * i - 1]) + HexValue(s[2 * i])]]

NoPost == [id |-> NilObjectID, title |-> <<>>, content |-> <<>>,
           createdAt |-> -1, updatedAt |-> -1]

ValidateContentFirst(p) ==
    IF TrimSpace(p.content) = <<>> THEN ErrContentRequired
    ELSE IF TrimSpace(p.title) = <<>> THEN ErrTitleRequired
    ELSE IF ByteLen(p.title) > MaxTitleLen THEN ErrTitleTooLong
    ELSE IF ByteLen(p.content) > MaxContentLen THEN ErrContentTooLong
    ELSE Nil

ValidateSwapped(p) ==
    IF TrimSpace(p.title) = <<>> THEN ErrTitleRequired
    ELSE IF TrimSpace(p.content) = <<>> THEN ErrContentRequired
    ELSE IF ByteLen(p.title) > MaxTitleLen THEN ErrTitleTooLong
    ELSE IF ByteLen(p.content) > MaxContentLen THEN ErrContentTooLong
    ELSE Nil

Validate(p) ==
    IF TrimSpace(p.title) = <<>> THEN ErrTitleRequired
    ELSE IF ByteLen(p.title) > MaxTitleLen THEN ErrTitleTooLong
    ELSE IF TrimSpace(p.content) = <<>> THEN ErrContentRequired
    ELSE IF ByteLen(p.content) > MaxContentLen THEN ErrContentTooLong
    ELSE Nil

NewPostUntrimmed(title, content, t) ==
    [id |-> NilObjectID, title |-> title, content |-> content,
     createdAt |-> t, updatedAt |-> t]

\* NewPost reads the clock once: t is what time.Now() returned
NewPost(title, content, t) ==
    [id |-> NilObjectID, title |-> TrimSpace(title), content |-> TrimSpace(content),
     createdAt |-> t, updatedAt |-> t]

UpdateKeepsTime(p, title, content, t) ==
    [p EXCEPT !.title = TrimSpace(title), !.content = TrimSpace(content)]

\* Post.Update
Update(p, title, content, t) ==
    [p EXCEPT !.title = TrimSpace(title), !.content = TrimSpace(content),
              !.updatedAt = t]

\* ------------------------------------------------------------ repository
ErrPostNotFound == "post not found"
ErrInvalidID == "invalid post id"
\* any other failure of the driver: connectivity, timeout, write error
ErrStore == "store error"

IDs(coll) == {d.id : d \in coll}

RepoCreateSwapped(coll, post, n, t1, t2, ok) ==
    LET p == [post EXCEPT !.id = NewObjectID(n), !.createdAt = t2, !.updatedAt = t1]
    IN  IF ok /\ p.id \notin IDs(coll)
        THEN [err |-> Nil, post |-> p, coll |-> coll \cup {p}, dbops |-> <<"InsertOne">>]
        ELSE [err |-> ErrStore, post |-> p, coll |-> coll, dbops |-> <<"InsertOne">>]

RepoCreateKeepsID(coll, post, n, t1, t2, ok) ==
    LET p == [post EXCEPT !.createdAt = t1, !.updatedAt = t2]
    IN  IF ok /\ p.id \notin IDs(coll)
        THEN [err |-> Nil, post |-> p, coll |-> coll \cup {p}, dbops |-> <<"InsertOne">>]
        ELSE [err |-> ErrStore, post |-> p, coll |-> coll, dbops |-> <<"InsertOne">>]

\* mongoPostRepository.Create: n is the counter NewObjectID draws from, t1 and
\* t2 the two readings of the clock, ok whether InsertOne succeeds
RepoCreate(coll, post, n, t1, t2, ok) ==
    LET p == [post EXCEPT !.id = NewObjectID(n), !.createdAt = t1, !.updatedAt = t2]
    IN  IF ok /\ p.id \notin IDs(coll)
        THEN [err |-> Nil, post |-> p, coll |-> coll \cup {p}, dbops |-> <<"InsertOne">>]
        ELSE [err |-> ErrStore, post |-> p, coll |-> coll, dbops |-> <<"InsertOne">>]

\* mongoPostRepository.FindByID
RepoFindByID(coll, id, ok) ==
    LET parsed == ObjectIDFromHex(id)
        found == {d \in coll : d.id = parsed.oid}
    IN  IF parsed.err # Nil
        THEN [err |-> ErrInvalidID, post |-> NoPost, dbops |-> <<>>]
        ELSE IF ~ok
        THEN [err |-> ErrStore, post |-> NoPost, dbops |-> <<"FindOne">>]
        ELSE IF found = {}
        THEN [err |-> ErrPostNotFound, post |-> NoPost, dbops |-> <<"FindOne">>]
        ELSE [err |-> Nil, post |-> CHOOSE d \in found : TRUE, dbops |-> <<"FindOne">>]

RepoUpdateTitleOnly(coll, post, t, ok) ==
    LET p == [post EXCEPT !.updatedAt = t]
        matched == {d \in coll : d.id = p.id}
        written == {[d EXCEPT !.title = p.title, !.updatedAt = p.updatedAt] :
                       d \in matched}
    IN  IF ~ok
        THEN [err |-> ErrStore, post |-> p, coll |-> coll, dbops |-> <<"UpdateOne">>]
        ELSE IF matched = {}
        THEN [err |-> ErrPostNotFound, post |-> p, coll |-> coll, dbops |-> <<"UpdateOne">>]
        ELSE [err |-> Nil, post |-> p, coll |-> (coll \ matched) \cup written,
              dbops |-> <<"UpdateOne">>]

RepoUpdateAll(coll, post, t, ok) ==
    LET p == [post EXCEPT !.updatedAt = t]
        matched == coll
        written == {[d EXCEPT !.title = p.title, !.content = p.content,
                              !.updatedAt = p.updatedAt] : d \in matched}
    IN  IF ~ok
        THEN [err |-> ErrStore, post |-> p, coll |-> coll, dbops |-> <<"UpdateOne">>]
        ELSE IF matched = {}
        THEN [err |-> ErrPostNotFound, post |-> p, coll |-> coll, dbops |-> <<"UpdateOne">>]
        ELSE [err |-> Nil, post |-> p, coll |-> (coll \ matched) \cup written,
              dbops |-> <<"UpdateOne">>]

RepoUpdateUpsert(coll, post, t, ok) ==
    LET p == [post EXCEPT !.updatedAt = t]
        matched == {d \in coll : d.id = p.id}
        written == {[d EXCEPT !.title = p.title, !.content = p.content,
                              !.updatedAt = p.updatedAt] : d \in matched}
    IN  IF ~ok
        THEN [err |-> ErrStore, post |-> p, coll |-> coll, dbops |-> <<"UpdateOne">>]
        ELSE IF matched = {}
        THEN [err |-> Nil, post |-> p, coll |-> coll \cup {p}, dbops |-> <<"UpdateOne">>]
        ELSE [err |-> Nil, post |-> p, coll |-> (coll \ matched) \cup written,
              dbops |-> <<"UpdateOne">>]

\* mongoPostRepository.Update: t is the reading of the clock, ok whether
\* UpdateOne succeeds
RepoUpdate(coll, post, t, ok) ==
    LET p == [post EXCEPT !.updatedAt = t]
        matched == {d \in coll : d.id = p.id}
        written == {[d EXCEPT !.title = p.title, !.content = p.content,
                              !.updatedAt = p.updatedAt] : d \in matched}
    IN  IF ~ok
        THEN [err |-> ErrStore, post |-> p, coll |-> coll, dbops |-> <<"UpdateOne">>]
        ELSE IF matched = {}
        THEN [err |-> ErrPostNotFound, post |-> p, coll |-> coll, dbops |-> <<"UpdateOne">>]
        ELSE [err |-> Nil, post |-> p, coll |-> (coll \ matched) \cup written,
              dbops |-> <<"UpdateOne">>]

RepoDeleteUncounted(coll, id, ok) ==
    LET parsed == ObjectIDFromHex(id)
        matched == {d \in coll : d.id = parsed.oid}
    IN  IF parsed.err # Nil
        THEN [err |-> ErrInvalidID, coll |-> coll, dbops |-> <<>>]
        ELSE IF ~ok
        THEN [err |-> ErrStore, coll |-> coll, dbops |-> <<"DeleteOne">>]
        ELSE [err |-> Nil, coll |-> coll \ matched, dbops |-> <<"DeleteOne">>]

\* mongoPostRepository.Delete
RepoDelete(coll, id, ok) ==
    LET parsed == ObjectIDFromHex(id)
        matched == {d \in coll : d.id = parsed.oid}
    IN  IF parsed.err # Nil
        THEN [err |-> ErrInvalidID, coll |-> coll, dbops |-> <<>>]
        ELSE IF ~ok
        THEN [err |-> ErrStore, coll |-> coll, dbops |-> <<"DeleteOne">>]
        ELSE IF matched = {}
        THEN [err |-> ErrPostNotFound, coll |-> coll, dbops |-> <<"DeleteOne">>]
        ELSE [err |-> Nil, coll |-> coll \ matched, dbops |-> <<"DeleteOne">>]

\* --------------------------------------------------- repository: queries
\* The characters of a string, one by one
RECURSIVE Expand(_)
Expand(s) ==
    IF s = <<>> THEN <<>>
    ELSE [i \in 1..Head(s)[2] |-> Head(s)[1]] \o Expand(Tail(s))

UpperLetters == <<"A", "B", "C", "D", "E", "F", "G", "H", "I", "J", "K", "L", "M",
                  "N", "O", "P", "Q", "R", "S", "T", "U", "V", "W", "X", "Y", "Z">>
LowerLetters == <<"a", "b", "c", "d", "e", "f", "g", "h", "i", "j", "k", "l", "m",
                  "n", "o", "p", "q", "r", "s", "t", "u", "v", "w", "x", "y", "z">>

\* the "i" option: letters are compared whatever their case
Fold(ch) ==
    IF \E k \in 1..26 : UpperLetters[k] = ch
    THEN LowerLetters[CHOOSE k \in 1..26 : UpperLetters[k] = ch]
    ELSE ch

\* $regex: the query is a regular expression.  Of its syntax the model has the
\* characters that stand for themselves, "." (any character but a newline) and
\* "(" and ")" (which must pair up, or the expression does not compile).
RegexCompiles(q) ==
    LET e == Expand(q)
        opens(n) == Cardinality({i \in 1..n : e[i] = "("})
        closes(n) == Cardinality({i \in 1..n : e[i] = ")"})
    IN  /\ opens(Len(e)) = closes(Len(e))
        /\ \A n \in 1..Len(e) : closes(n) <= opens(n)

RegexChars(q) == SelectSeq(Expand(q), LAMBDA ch : ch \notin {"(", ")"})

RegexMatchesAt(pat, text, at) ==
    \A j \in 1..Len(pat) :
        \/ pat[j] = "." /\ text[at + j] # "\n"
        \/ pat[j] # "." /\ Fold(pat[j]) = Fold(text[at + j])

\* an unanchored match: somewhere in the text
RegexMatches(q, s) ==
    LET pat == RegexChars(q)
        text == Expand(s)
    IN  \E at \in 0..(Len(text) - Len(pat)) : RegexMatchesAt(pat, text, at)

\* the filter of Search and CountSearch: "$or" of the two fields
SearchMatches(d, query) ==
    RegexMatches(query, d.title) \/ RegexMatches(query, d.content)

SearchFilter(coll, query) == {d \in coll : SearchMatches(d, query)}

\* the orders a sort on created_at descending can give: documents with the
\* same created_at come in any order
RECURSIVE SortedOrders(_)
SortedOrders(docs) ==
    IF docs = {} THEN {<<>>}
    ELSE UNION { {<<d>> \o rest : rest \in SortedOrders(docs \ {d})} :
                 d \in {x \in docs : \A y \in docs : y.createdAt <= x.createdAt} }

PageOfNoSkip(sorted, limit, offset) ==
    SubSeq(sorted, 1, IF limit < Len(sorted) THEN limit ELSE Len(sorted))

\* limit and skip on a sorted result
PageOf(sorted, limit, offset) ==
    LET skip == SkipOf(offset, Len(sorted))
        upto == IF skip + limit < Len(sorted) THEN skip + limit ELSE Len(sorted)
    IN  SubSeq(sorted, skip + 1, upto)

\* mongoPostRepository.FindAll: order is the result of the sort, ok whether
\* the driver succeeds.  The server refuses a negative skip.
RepoFindAll(coll, limit, offset, order, ok) ==
    IF ~ok \/ IsNegative(offset)
    THEN [err |-> ErrStore, posts |-> <<>>, dbops |-> <<"Find">>]
    ELSE [err |-> Nil, posts |-> PageOf(order, limit, offset), dbops |-> <<"Find">>]

\* mongoPostRepository.Search: order is the result of sorting the collection
RepoSearch(coll, query, limit, offset, order, ok) ==
    IF ~ok \/ IsNegative(offset) \/ ~RegexCompiles(query)
    THEN [err |-> ErrStore, posts |-> <<>>, dbops |-> <<"Find">>]
    ELSE [err |-> Nil,
          posts |-> PageOf(SelectSeq(order, LAMBDA d : SearchMatches(d, query)),
                           limit, offset),
          dbops |-> <<"Find">>]

RepoCountSkipsOne(coll, ok) ==
    IF ~ok THEN [err |-> ErrStore, total |-> 0, dbops |-> <<"CountDocuments">>]
    ELSE [err |-> Nil, total |-> IF coll = {} THEN 0 ELSE Cardinality(coll) - 1,
          dbops |-> <<"CountDocuments">>]

\* mongoPostRepository.Count
RepoCount(coll, ok) ==
    IF ~ok THEN [err |-> ErrStore, total |-> 0, dbops |-> <<"CountDocuments">>]
    ELSE [err |-> Nil, total |-> Cardinality(coll), dbops |-> <<"CountDocuments">>]

RepoCountSearchTitles(coll, query, ok) ==
    IF ~ok \/ ~RegexCompiles(query)
    THEN [err |-> ErrStore, total |-> 0, dbops |-> <<"CountDocuments">>]
    ELSE [err |-> Nil,
          total |-> Cardinality({d \in coll : RegexMatches(query, d.title)}),
          dbops |-> <<"CountDocuments">>]

\* mongoPostRepository.CountSearch
RepoCountSearch(coll, query, ok) ==
    IF ~ok \/ ~RegexCompiles(query)
    THEN [err |-> ErrStore, total |-> 0, dbops |-> <<"CountDocuments">>]
    ELSE [err |-> Nil, total |-> Cardinality(SearchFilter(coll, query)),
          dbops |-> <<"CountDocuments">>]

\* ------------------------------------------------------------ service
\* What a service call returns, with what it did: err and post are the Go
\* results (post is NoPost for nil), coll the collection afterwards, counter
\* the object id counter afterwards, clock the last reading of the clock,
\* calls the repository methods called and dbops the driver calls made.

CreatePostUnvalidated(coll, title, content, n, ts, fault) ==
    LET post == NewPost(title, content, ts[1])
        r == RepoCreate(coll, post, n, ts[2], ts[3], fault # 1)
    IN  [err |-> r.err, post |-> IF r.err = Nil THEN r.post ELSE NoPost,
         coll |-> r.coll, counter |-> n + 1, clock |-> ts[3],
         calls |-> << <<"Create">> >>, dbops |-> r.dbops]

\* PostService.CreatePost: ts[1], ts[2], ... are the readings of the clock, in
\* order, and ts[0] the clock before the call
CreatePost(coll, title, content, n, ts, fault) ==
    LET post == NewPost(title, content, ts[1])
        verr == Validate(post)
        r == RepoCreate(coll, post, n, ts[2], ts[3], fault # 1)
    IN  IF verr # Nil
        THEN [err |-> verr, post |-> NoPost, coll |-> coll, counter |-> n,
              clock |-> ts[1], calls |-> <<>>, dbops |-> <<>>]
        ELSE [err |-> r.err, post |-> IF r.err = Nil THEN r.post ELSE NoPost,
              coll |-> r.coll, counter |-> n + 1, clock |-> ts[3],
              calls |-> << <<"Create">> >>, dbops |-> r.dbops]

\* PostService.GetPost
GetPost(coll, id, fault) ==
    LET r == RepoFindByID(coll, id, fault # 1)
    IN  [err |-> r.err, post |-> r.post, coll |-> coll,
         calls |-> << <<"FindByID", id>> >>, dbops |-> r.dbops]

UpdatePostSaveFirst(coll, id, title, content, ts, fault) ==
    LET f == RepoFindByID(coll, id, fault # 1)
        post == Update(f.post, title, content, ts[1])
        u == RepoUpdate(coll, post, ts[2], fault # 2)
        verr == Validate(post)
    IN  IF f.err # Nil
        THEN [err |-> f.err, post |-> NoPost, coll |-> coll, clock |-> ts[0],
              calls |-> << <<"FindByID", id>> >>, dbops |-> f.dbops]
        ELSE [err |-> IF u.err # Nil THEN u.err ELSE verr,
              post |-> IF u.err = Nil /\ verr = Nil THEN u.post ELSE NoPost,
              coll |-> u.coll, clock |-> ts[2],
              calls |-> << <<"FindByID", id>>, <<"Update">> >>,
              dbops |-> f.dbops \o u.dbops]

\* PostService.UpdatePost
UpdatePost(coll, id, title, content, ts, fault) ==
    LET f == RepoFindByID(coll, id, fault # 1)
        post == Update(f.post, title, content, ts[1])
        verr == Validate(post)
        u == RepoUpdate(coll, post, ts[2], fault # 2)
    IN  IF f.err # Nil
        THEN [err |-> f.err, post |-> NoPost, coll |-> coll, clock |-> ts[0],
              calls |-> << <<"FindByID", id>> >>, dbops |-> f.dbops]
        ELSE IF verr # Nil
        THEN [err |-> verr, post |-> NoPost, coll |-> coll, clock |-> ts[1],
              calls |-> << <<"FindByID", id>> >>, dbops |-> f.dbops]
        ELSE [err |-> u.err, post |-> IF u.err = Nil THEN u.post ELSE NoPost,
              coll |-> u.coll, clock |-> ts[2],
              calls |-> << <<"FindByID", id>>, <<"Update">> >>,
              dbops |-> f.dbops \o u.dbops]

\* PostService.DeletePost
DeletePost(coll, id, fault) ==
    LET r == RepoDelete(coll, id, fault # 1)
    IN  [err |-> r.err, coll |-> r.coll,
         calls |-> << <<"Delete", id>> >>, dbops |-> r.dbops]

DefaultPageSize == 10
MaxPageSize == 100

\* page < 1 becomes 1
NormalPage(page) == IF LessThanOne(page) THEN GoInt(1) ELSE page

\* pageSize < 1 becomes 10, pageSize > 100 becomes 100.  A page size is a
\* small number and is kept as it is.
NormalPageSize(pageSize) ==
    IF pageSize < 1 THEN DefaultPageSize
    ELSE IF pageSize > MaxPageSize THEN MaxPageSize ELSE pageSize

\* totalPages: int(total) / pageSize, one more if there is a remainder
TotalPages(total, pageSize) ==
    (total \div pageSize) + (IF total % pageSize # 0 THEN 1 ELSE 0)

\* what GetPosts and SearchPosts make of the two repository results
PageResult(found, counted, fn, limit, offset, countFn) ==
    IF found.err # Nil
    THEN [err |-> found.err, posts |-> <<>>, totalPages |-> 0,
          calls |-> << <<fn, limit, offset>> >>, dbops |-> found.dbops]
    ELSE IF counted.err # Nil
    THEN [err |-> counted.err, posts |-> <<>>, totalPages |-> 0,
          calls |-> << <<fn, limit, offset>>, <<countFn>> >>,
          dbops |-> found.dbops \o counted.dbops]
    ELSE [err |-> Nil, posts |-> found.posts,
          totalPages |-> TotalPages(counted.total, limit),
          calls |-> << <<fn, limit, offset>>, <<countFn>> >>,
          dbops |-> found.dbops \o counted.dbops]

\* PostService.GetPosts
GetPosts(coll, page, pageSize, order, fault) ==
    LET limit == NormalPageSize(pageSize)
        offset == Times(Dec(NormalPage(page)), limit)
    IN  PageResult(RepoFindAll(coll, limit, offset, order, fault # 1),
                   RepoCount(coll, fault # 2), "FindAll", limit, offset, "Count")

\* PostService.SearchPosts
SearchPosts(coll, query, page, pageSize, order, fault) ==
    LET limit == NormalPageSize(pageSize)
        offset == Times(Dec(NormalPage(page)), limit)
    IN  PageResult(RepoSearch(coll, query, limit, offset, order, fault # 1),
                   RepoCountSearch(coll, query, fault # 2), "Search", limit, offset,
                   "CountSearch")

\* ------------------------------------------------------------ bootstrap
\* The database: the names of its collections, the indexes of the collection
\* "posts" (name and keys; the index on _id is left out), and, as history,
\* whether a migration has succeeded on it.
CreatedAtIndex ==
    [name |-> "created_at_desc", keys |-> << <<"created_at", "-1">> >>]

TextIndex ==
    [name |-> "title_content_text",
     keys |-> << <<"title", "text">>, <<"content", "text">> >>]

\* the database after a migration of an empty one
Migrated ==
    [collections |-> {"posts"}, indexes |-> {CreatedAtIndex, TextIndex},
     migrated |-> TRUE]

IsText(ix) == \E i \in 1..Len(ix.keys) : ix.keys[i][2] = "text"

\* db.ListCollectionNames with the filter {"name": name}
ListCollectionNames(d, name, ok) ==
    IF ~ok THEN [err |-> "failed to list collections", names |-> {}]
    ELSE [err |-> Nil, names |-> d.collections \cap {name}]

\* db.CreateCollection: the server refuses a name that exists
CreateCollection(d, name, ok) ==
    IF ~ok \/ name \in d.collections
    THEN [err |-> "failed to create collection", db |-> d]
    ELSE [err |-> Nil, db |-> [d EXCEPT !.collections = @ \cup {name}]]

\* collection.Indexes().CreateOne on "posts": an index that exists with the
\* same name and keys is left as it is; the server refuses an index whose name
\* or keys an index of other keys or another name has, and a second text
\* index; creating an index creates the collection when there is none.
CreateOne(d, model, ok, message) ==
    IF ~ok THEN [err |-> message, db |-> d]
    ELSE IF model \in d.indexes THEN [err |-> Nil, db |-> d]
    ELSE IF \E ix \in d.indexes :
                \/ ix.name = model.name
                \/ ix.keys = model.keys
                \/ IsText(ix) /\ IsText(model)
    THEN [err |-> message, db |-> d]
    ELSE [err |-> Nil, db |-> [d EXCEPT !.indexes = @ \cup {model},
                                        !.collections = @ \cup {"posts"}]]

\* fault: which driver call of the migration fails when it is made (0: none;
\* 1: ListCollectionNames, 2: CreateCollection, 3 and 4: the two CreateOne)
createCollectionUnchecked(d, name, fault) ==
    LET c == CreateCollection(d, name, fault # 2)
    IN  [err |-> c.err, db |-> c.db, dbops |-> <<"CreateCollection">>]

\* createCollection
createCollection(d, name, fault) ==
    LET l == ListCollectionNames(d, name, fault # 1)
        c == CreateCollection(d, name, fault # 2)
    IN  IF l.err # Nil
        THEN [err |-> l.err, db |-> d, dbops |-> <<"ListCollectionNames">>]
        ELSE IF l.names = {}
        THEN [err |-> c.err, db |-> c.db,
              dbops |-> <<"ListCollectionNames", "CreateCollection">>]
        ELSE [err |-> Nil, db |-> d, dbops |-> <<"ListCollectionNames">>]

\* createPostsIndexes
createPostsIndexes(d, fault) ==
    LET a == CreateOne(d, CreatedAtIndex, fault # 3, "failed to create created_at index")
        b == CreateOne(a.db, TextIndex, fault # 4, "failed to create text index")
    IN  IF a.err # Nil
        THEN [err |-> a.err, db |-> a.db, dbops |-> <<"CreateOne">>]
        ELSE [err |-> b.err, db |-> b.db, dbops |-> <<"CreateOne", "CreateOne">>]

\* migrate
migrate(d, fault) ==
    LET c == createCollection(d, "posts", fault)
        i == createPostsIndexes(c.db, fault)
    IN  IF c.err # Nil
        THEN [err |-> c.err, db |-> c.db, dbops |-> c.dbops]
        ELSE [err |-> i.err, db |-> i.db, dbops |-> c.dbops \o i.dbops]

\* ------------------------------------------------------------ inputs
Str(ch, n) == <<<<ch, n>>>>
Padded(s) == <<<<" ", 2>>>> \o s \o <<<<" ", 2>>>>

EntityTitles ==
    { <<>>, Str(" ", 3), Str("a", 1), Padded(Str("A", 1)),
      Str("a", MaxTitleLen), Str("a", MaxTitleLen + 1),
      Padded(Str("a", MaxTitleLen)), Padded(Str("a", MaxTitleLen + 1)),
      Str("U+00E9", MaxTitleLen), Str("U+00E9", MaxTitleLen \div 2) }

EntityContents ==
    { <<>>, Str("\t", 1), Padded(Str("B", 1)),
      Str("b", MaxContentLen), Str("b", MaxContentLen + 1),
      Padded(Str("b", MaxContentLen)),
      Str("U+00E9", MaxContentLen) }

\* ------------------------------------------------------------ results
\* fault: which database call of the request failed (0: none)
NoLast == [op |-> "none", id |-> <<>>, title |-> <<>>, content |-> <<>>,
           page |-> <<>>, pageSize |-> 0, query |-> <<>>,
           fault |-> 0, err |-> Nil, post |-> NoPost, posts |-> <<>>,
           totalPages |-> 0, calls |-> <<>>, dbops |-> <<>>, status |-> 0,
           view |-> "", message |-> "", formTitle |-> <<>>, formContent |-> <<>>,
           param |-> <<>>, again |-> FALSE]

\* ------------------------------------------- the entity on its own
EntityInit ==
    /\ store = {}
    /\ nextID = FirstCounter
    /\ now = 0
    /\ ent = NoPost
    /\ last = NoLast
    /\ deleted = {}
    /\ req = <<>>
    /\ db = Migrated

EntityNewPost ==
    \E title \in EntityTitles, content \in EntityContents, t \in now..MaxClock :
        /\ ent' = NewPost(title, content, t)
        /\ now' = t
        /\ last' = [NoLast EXCEPT !.op = "NewPost", !.title = title,
                                  !.content = content]
        /\ UNCHANGED <<store, nextID, deleted, req, db>>

EntityUpdate ==
    /\ ent # NoPost
    /\ \E title \in EntityTitles, content \in EntityContents, t \in now..MaxClock :
        /\ ent' = Update(ent, title, content, t)
        /\ now' = t
        /\ last' = [NoLast EXCEPT !.op = "Update", !.title = title,
                                  !.content = content, !.post = ent]
        /\ UNCHANGED <<store, nextID, deleted, req, db>>

EntityValidate ==
    /\ ent # NoPost
    /\ last' = [NoLast EXCEPT !.op = "Validate", !.err = Validate(ent)]
    /\ UNCHANGED <<store, nextID, now, ent, deleted, req, db>>

EntityNext == EntityNewPost \/ EntityUpdate \/ EntityValidate

SpecEntity == EntityInit /\ [][EntityNext]_vars

\* ------------------------------------------- the service over the store
Titles ==
    { Str(" ", 3), Padded(Str("A", 1)), Str("a", MaxTitleLen),
      Padded(Str("a", MaxTitleLen + 1)) }

Contents ==
    { <<>>, Padded(Str("B", 1)), Str("b", MaxContentLen + 1) }

\* the ids of the posts there can be (the id of a post not yet created or
\* already deleted is the id of no post) and two strings that are no object
\* id: one of a wrong length, one with a character that is no digit
IDStrings ==
    {Hex(NewObjectID(n)) : n \in FirstCounter..(FirstCounter + MaxPosts - 1)}
        \cup { [i \in 1..(2 * ObjectIDLen) |-> IF i = 1 THEN "g" ELSE "0"],
               <<"a", "b", "c">> }

\* k readings ts[1] .. ts[k] of a clock that never goes back, after ts[0] = now
Readings(k) ==
    {ts \in [0..k -> now..MaxClock] :
        ts[0] = now /\ \A i \in 0..(k - 1) : ts[i] <= ts[i + 1]}

Init ==
    /\ store = {}
    /\ nextID = FirstCounter
    /\ now = 0
    /\ ent = NoPost
    /\ last = NoLast
    /\ deleted = {}
    /\ req = <<>>
    /\ db = Migrated

\* The service is called by one request at a time: a call is made when the
\* result of the one before has been handed back (Respond).
CreatePostCall ==
    /\ last = NoLast
    /\ nextID < FirstCounter + MaxPosts
    /\ \E title \in Titles, content \in Contents, ts \in Readings(3), fault \in 0..1 :
        \E r \in {CreatePost(store, title, content, nextID, ts, fault)} :
            /\ store' = r.coll
            /\ nextID' = r.counter
            /\ now' = r.clock
            /\ last' = [NoLast EXCEPT !.op = "CreatePost", !.title = title,
                            !.content = content, !.fault = fault, !.err = r.err,
                            !.post = r.post, !.calls = r.calls, !.dbops = r.dbops]
            /\ UNCHANGED <<ent, deleted, req, db>>

GetPostCall ==
    /\ last = NoLast
    /\ \E id \in IDStrings, fault \in 0..1 :
        \E r \in {GetPost(store, id, fault)} :
            /\ last' = [NoLast EXCEPT !.op = "GetPost", !.id = id, !.fault = fault,
                            !.err = r.err, !.post = r.post, !.calls = r.calls,
                            !.dbops = r.dbops]
            /\ UNCHANGED <<store, nextID, now, ent, deleted, req, db>>

UpdatePostCall ==
    /\ last = NoLast
    /\ \E id \in IDStrings, title \in Titles, content \in Contents,
       ts \in Readings(2), fault \in 0..2 :
        \E r \in {UpdatePost(store, id, title, content, ts, fault)} :
            /\ store' = r.coll
            /\ now' = r.clock
            /\ last' = [NoLast EXCEPT !.op = "UpdatePost", !.id = id, !.title = title,
                            !.content = content, !.fault = fault, !.err = r.err,
                            !.post = r.post, !.calls = r.calls, !.dbops = r.dbops]
            /\ UNCHANGED <<nextID, ent, deleted, req, db>>

DeletePostCall ==
    /\ last = NoLast
    /\ \E id \in IDStrings, fault \in 0..1 :
        \E r \in {DeletePost(store, id, fault)} :
            /\ store' = r.coll
            /\ deleted' = IF r.err = Nil
                           THEN deleted \cup {ObjectIDFromHex(id).oid}
                           ELSE deleted
            /\ last' = [NoLast EXCEPT !.op = "DeletePost", !.id = id, !.fault = fault,
                            !.err = r.err, !.calls = r.calls, !.dbops = r.dbops]
            /\ UNCHANGED <<nextID, now, ent, req, db>>

\* the caller takes the result of the call
Respond ==
    /\ last # NoLast
    /\ last' = NoLast
    /\ UNCHANGED <<store, nextID, now, ent, deleted, req, db>>

Next == CreatePostCall \/ GetPostCall \/ UpdatePostCall \/ DeletePostCall \/ Respond

Spec == Init /\ [][Next]_vars

\* ------------------------------------------- the lists over a fixed store
\* the store after n posts were created one millisecond apart
StoredTitles == << <<<<"G", 1>>, <<"o", 1>>>>,
                   <<<<"P", 1>>, <<"y", 1>>>>,
                   <<<<"g", 1>>, <<"O", 1>>, <<"!", 1>>>> >>

StoreOf(n) ==
    { [id |-> NewObjectID(FirstCounter + i - 1),
       title |-> StoredTitles[(i % 3) + 1], content |-> Str("x", 1),
       createdAt |-> i, updatedAt |-> i] : i \in 1..n }

\* 2^62 + 1 and the largest int
WrappingPage == [i \in 1..IntLimbs |-> IF i = 1 THEN 1 ELSE IF i = IntLimbs THEN LimbBase \div 4 ELSE 0]
MaxInt == [i \in 1..IntLimbs |-> IF i = IntLimbs THEN (LimbBase \div 2) - 1 ELSE LimbBase - 1]

Pages == {GoInt(n) : n \in -1..3} \cup {WrappingPage, MaxInt}

PageSizes == {-1, 0, 1, 2, 7, DefaultPageSize, MaxPageSize, MaxPageSize + 1, 150}

Queries == { <<>>, <<<<"G", 1>>, <<"o", 1>>>>, <<<<"g", 1>>, <<".", 1>>>>,
             Str("x", 1), Str("(", 1), Str("z", 1) }

PageInit ==
    /\ store \in {StoreOf(n) : n \in 0..MaxStored}
    /\ nextID = FirstCounter + Cardinality(store)
    /\ now = Cardinality(store)
    /\ ent = NoPost
    /\ last = NoLast
    /\ deleted = {}
    /\ req = <<>>
    /\ db = Migrated

GetPostsCall ==
    /\ last = NoLast
    /\ \E page \in Pages, pageSize \in PageSizes, order \in SortedOrders(store),
          fault \in 0..2 :
        \E r \in {GetPosts(store, page, pageSize, order, fault)} :
            /\ last' = [NoLast EXCEPT !.op = "GetPosts", !.page = page,
                            !.pageSize = pageSize, !.fault = fault, !.err = r.err,
                            !.posts = r.posts, !.totalPages = r.totalPages,
                            !.calls = r.calls, !.dbops = r.dbops]
            /\ UNCHANGED <<store, nextID, now, ent, deleted, req, db>>

SearchPostsCall ==
    /\ last = NoLast
    /\ \E query \in Queries, page \in Pages, pageSize \in PageSizes,
          order \in SortedOrders(store), fault \in 0..2 :
        \E r \in {SearchPosts(store, query, page, pageSize, order, fault)} :
            /\ last' = [NoLast EXCEPT !.op = "SearchPosts", !.query = query,
                            !.page = page, !.pageSize = pageSize, !.fault = fault,
                            !.err = r.err, !.posts = r.posts,
                            !.totalPages = r.totalPages, !.calls = r.calls,
                            !.dbops = r.dbops]
            /\ UNCHANGED <<store, nextID, now, ent, deleted, req, db>>

PageNext == GetPostsCall \/ SearchPostsCall \/ Respond

SpecPage == PageInit /\ [][PageNext]_vars

\* ------------------------------------------- the repository, a post in hand
\* A caller of the entity and of the repository holds one post (ent): it
\* constructs it, changes it, and hands it to Create and Update; FindByID
\* gives it a stored one.  Nothing here validates but UpdatePost.
RepoInputs == { [title |-> Padded(Str("A", 1)), content |-> Padded(Str("B", 1))],
                [title |-> Str(" ", 3), content |-> Str("D", 1)] }

\* the ids of the posts there can be
RepoIDs == {Hex(NewObjectID(n)) : n \in FirstCounter..(FirstCounter + MaxPosts - 1)}

RepoNewPostCall ==
    /\ last = NoLast
    /\ \E in \in RepoInputs, ts \in Readings(1) :
        /\ ent' = NewPost(in.title, in.content, ts[1])
        /\ now' = ts[1]
        /\ last' = [NoLast EXCEPT !.op = "NewPost", !.title = in.title,
                        !.content = in.content]
        /\ UNCHANGED <<store, nextID, deleted, req, db>>

RepoEntityUpdateCall ==
    /\ last = NoLast
    /\ ent # NoPost
    /\ \E in \in RepoInputs, ts \in Readings(1) :
        /\ ent' = Update(ent, in.title, in.content, ts[1])
        /\ now' = ts[1]
        /\ last' = [NoLast EXCEPT !.op = "Update", !.title = in.title,
                        !.content = in.content]
        /\ UNCHANGED <<store, nextID, deleted, req, db>>

\* Create fills in the post it is given and inserts it
RepoCreateCall ==
    /\ last = NoLast
    /\ ent # NoPost
    /\ nextID < FirstCounter + MaxPosts
    /\ \E ts \in Readings(2) :
        \E r \in {RepoCreate(store, ent, nextID, ts[1], ts[2], TRUE)} :
            /\ store' = r.coll
            /\ ent' = r.post
            /\ nextID' = nextID + 1
            /\ now' = ts[2]
            /\ last' = [NoLast EXCEPT !.op = "Create", !.err = r.err,
                            !.dbops = r.dbops]
            /\ UNCHANGED <<deleted, req, db>>

RepoFindByIDCall ==
    /\ last = NoLast
    /\ \E id \in RepoIDs :
        \E r \in {RepoFindByID(store, id, TRUE)} :
            /\ ent' = IF r.err = Nil THEN r.post ELSE ent
            /\ last' = [NoLast EXCEPT !.op = "FindByID", !.id = id, !.err = r.err,
                            !.dbops = r.dbops]
            /\ UNCHANGED <<store, nextID, now, deleted, req, db>>

\* Update stamps the post it is given, whether or not UpdateOne succeeds
RepoUpdateCall ==
    /\ last = NoLast
    /\ ent # NoPost
    /\ \E ts \in Readings(1), ok \in BOOLEAN :
        \E r \in {RepoUpdate(store, ent, ts[1], ok)} :
            /\ store' = r.coll
            /\ ent' = r.post
            /\ now' = ts[1]
            /\ last' = [NoLast EXCEPT !.op = "StoreUpdate", !.err = r.err,
                            !.fault = IF ok THEN 0 ELSE 1, !.dbops = r.dbops]
            /\ UNCHANGED <<nextID, deleted, req, db>>

RepoDeleteCall ==
    /\ last = NoLast
    /\ \E id \in RepoIDs :
        \E r \in {RepoDelete(store, id, TRUE)} :
            /\ store' = r.coll
            /\ deleted' = IF r.err = Nil
                           THEN deleted \cup {ObjectIDFromHex(id).oid}
                           ELSE deleted
            /\ last' = [NoLast EXCEPT !.op = "Delete", !.id = id, !.err = r.err,
                            !.dbops = r.dbops]
            /\ UNCHANGED <<nextID, now, ent, req, db>>

\* the service's UpdatePost, on a stored post or on none
RepoUpdatePostCall ==
    /\ last = NoLast
    /\ \E id \in RepoIDs, in \in RepoInputs, ts \in Readings(2), fault \in 0..2 :
        \E r \in {UpdatePost(store, id, in.title, in.content, ts, fault)} :
            /\ store' = r.coll
            /\ now' = r.clock
            /\ last' = [NoLast EXCEPT !.op = "UpdatePost", !.id = id,
                            !.title = in.title, !.content = in.content, !.fault = fault, !.err = r.err,
                            !.post = r.post, !.calls = r.calls, !.dbops = r.dbops]
            /\ UNCHANGED <<nextID, ent, deleted, req, db>>

RepoNext ==
    \/ RepoNewPostCall
    \/ RepoEntityUpdateCall
    \/ RepoCreateCall
    \/ RepoFindByIDCall
    \/ RepoUpdateCall
    \/ RepoDeleteCall
    \/ RepoUpdatePostCall
    \/ Respond

SpecRepo == Init /\ [][RepoNext]_vars

\* ------------------------------------------- requests side by side
\* Every request runs in a goroutine of its own.  What the requests share is
\* the collection, the driver's object id counter and the clock; a request's
\* step is one access to one of them, with the work done on its own post
\* before it.  A request holds: pc where it is, op what it is, id and in its
\* arguments, post the post in its hands, n the counter it drew, err what it
\* returns, and seen the clock at its step before, kept while its next step
\* uses a reading taken any time since.
Requests == {"r1", "r2", "r3"}

ConcInputs == { [title |-> Padded(Str("A", 1)), content |-> Padded(Str("B", 1))],
                [title |-> Str("C", 1), content |-> Str("D", 1)] }

NoInput == [title |-> <<>>, content |-> <<>>]

Idle == [pc |-> "idle", op |-> "none", id |-> <<>>, in |-> NoInput,
         post |-> NoPost, n |-> 0, seen |-> 0, err |-> Nil,
         page |-> 0, limit |-> 0, query |-> <<>>, found |-> [err |-> Nil, posts |-> <<>>, dbops |-> <<>>],
         totalPages |-> 0]

Max(a, b) == IF a > b THEN a ELSE b

\* the readings a request can get from the clock since it last took a step:
\* other requests have run meanwhile, and the clock never goes back
ReadingsSince(seen, k) ==
    {ts \in [1..k -> seen..MaxClock] : \A i \in 1..(k - 1) : ts[i] <= ts[i + 1]}

ConcInit ==
    /\ store = {}
    /\ nextID = FirstCounter
    /\ now = 0
    /\ ent = NoPost
    /\ last = NoLast
    /\ deleted = {}
    /\ req = [r \in Requests |-> Idle]
    /\ db = Migrated

\* PostService.CreatePost up to the call of the repository
ConcCreatePost ==
    \E r \in Requests, in \in ConcInputs, ts \in Readings(1) :
        /\ req[r].pc = "idle"
        /\ \E post \in {NewPost(in.title, in.content, ts[1])} :
            req' = [req EXCEPT ![r] =
                      IF Validate(post) # Nil
                      THEN [Idle EXCEPT !.pc = "done", !.op = "CreatePost", !.in = in,
                                        !.err = Validate(post)]
                      ELSE [Idle EXCEPT !.pc = "create", !.op = "CreatePost", !.in = in,
                                        !.post = post]]
        /\ now' = ts[1]
        /\ UNCHANGED <<store, nextID, ent, last, deleted, db>>

\* the posts a caller can hand to the repository's Create that carry an
\* identifier and timestamps already: a stored one it loaded, or one it made
\* up with the first identifier of the counter and a time yet to come
SuppliedPosts ==
    store \cup {[NewPost(in.title, in.content, MaxClock + 1)
                    EXCEPT !.id = NewObjectID(FirstCounter)] : in \in ConcInputs}

\* a caller of the repository's Create with such a post
ConcCreate ==
    \E r \in Requests, post \in SuppliedPosts :
        /\ req[r].pc = "idle"
        /\ req' = [req EXCEPT ![r] = [Idle EXCEPT !.pc = "create", !.op = "Create",
                                                  !.post = post]]
        /\ UNCHANGED <<store, nextID, now, ent, last, deleted, db>>

\* mongoPostRepository.Create: primitive.NewObjectID()
ConcNewObjectID ==
    \E r \in Requests :
        /\ req[r].pc = "create"
        /\ nextID < FirstCounter + MaxPosts
        /\ req' = [req EXCEPT ![r].pc = "insert", ![r].n = nextID, ![r].seen = now]
        /\ nextID' = nextID + 1
        /\ UNCHANGED <<store, now, ent, last, deleted, db>>

\* mongoPostRepository.Create: the two readings of the clock and InsertOne
ConcInsertOne ==
    \E r \in Requests :
        /\ req[r].pc = "insert"
        /\ \E ts \in ReadingsSince(req[r].seen, 2) :
            \E c \in {RepoCreate(store, req[r].post, req[r].n, ts[1], ts[2], TRUE)} :
                /\ store' = c.coll
                /\ now' = Max(now, ts[2])
                /\ req' = [req EXCEPT ![r].pc = "done", ![r].post = c.post,
                                      ![r].err = c.err, ![r].seen = 0]
        /\ UNCHANGED <<nextID, ent, last, deleted, db>>

\* PostService.UpdatePost: FindByID
ConcFindByID ==
    \E r \in Requests, id \in RepoIDs, in \in ConcInputs :
        /\ req[r].pc = "idle"
        /\ \E f \in {RepoFindByID(store, id, TRUE)} :
            req' = [req EXCEPT ![r] =
                      IF f.err # Nil
                      THEN [Idle EXCEPT !.pc = "done", !.op = "UpdatePost", !.id = id,
                                        !.in = in, !.err = f.err]
                      ELSE [Idle EXCEPT !.pc = "found", !.op = "UpdatePost", !.id = id,
                                        !.in = in, !.post = f.post]]
        /\ UNCHANGED <<store, nextID, now, ent, last, deleted, db>>

\* PostService.UpdatePost: Post.Update and Validate, on the request's own post
ConcUpdate ==
    \E r \in Requests :
        /\ req[r].pc = "found"
        /\ \E ts \in Readings(1) :
            \E post \in {Update(req[r].post, req[r].in.title, req[r].in.content, ts[1])} :
                /\ req' = [req EXCEPT ![r] =
                             IF Validate(post) # Nil
                             THEN [@ EXCEPT !.pc = "done", !.post = NoPost,
                                            !.err = Validate(post)]
                             ELSE [@ EXCEPT !.pc = "save", !.post = post, !.seen = ts[1]]]
                /\ now' = ts[1]
        /\ UNCHANGED <<store, nextID, ent, last, deleted, db>>

\* mongoPostRepository.Update: the reading of the clock and UpdateOne
ConcUpdateOne ==
    \E r \in Requests :
        /\ req[r].pc = "save"
        /\ \E ts \in ReadingsSince(req[r].seen, 1) :
            \E u \in {RepoUpdate(store, req[r].post, ts[1], TRUE)} :
                /\ store' = u.coll
                /\ now' = Max(now, ts[1])
                /\ req' = [req EXCEPT ![r].pc = "done", ![r].post = u.post,
                                      ![r].err = u.err, ![r].seen = 0]
        /\ UNCHANGED <<nextID, ent, last, deleted, db>>

ConcNext ==
    \/ ConcCreatePost
    \/ ConcCreate
    \/ ConcNewObjectID
    \/ ConcInsertOne
    \/ ConcFindByID
    \/ ConcUpdate
    \/ ConcUpdateOne

SpecConc == ConcInit /\ [][ConcNext]_vars

\* ------------------------------------------- requests on a store in use
\* The requests of a server whose collection holds posts already: updates,
\* deletes, creates and lists side by side.  A list request holds: page and
\* limit its normalized arguments, query its search (none for GetPosts), found
\* what FindAll or Search returned, n the number of posts that matched then,
\* totalPages what it returns.  The one form is title "C" and content "D";
\* the lists ask for page 1 or 2 with page size 1 and search for "x" or not.
\* The posts were stored some time ago.
RaceInit ==
    /\ store \in { {[d EXCEPT !.createdAt = 0, !.updatedAt = 0] : d \in StoreOf(n)} :
                       n \in (MaxPosts - 1)..MaxPosts }
    /\ nextID = FirstCounter + Cardinality(store)
    /\ now = MaxClock
    /\ ent = NoPost
    /\ last = NoLast
    /\ deleted = {}
    /\ req = [r \in Requests |-> Idle]
    /\ db = Migrated

\* PostService.CreatePost up to the call of the repository
RaceCreatePost ==
    \E r \in Requests, in \in {[title |-> Str("C", 1), content |-> Str("D", 1)]}, ts \in Readings(1) :
        /\ req[r].pc = "idle"
        /\ nextID < FirstCounter + MaxPosts
        /\ req' = [req EXCEPT ![r] = [Idle EXCEPT !.pc = "create", !.op = "CreatePost",
                                                  !.in = in,
                                                  !.post = NewPost(in.title, in.content, ts[1])]]
        /\ now' = ts[1]
        /\ UNCHANGED <<store, nextID, ent, last, deleted, db>>

\* PostService.UpdatePost: FindByID
RaceFindByID ==
    \E r \in Requests, id \in RepoIDs, in \in {[title |-> Str("C", 1), content |-> Str("D", 1)]} :
        /\ req[r].pc = "idle"
        /\ \E f \in {RepoFindByID(store, id, TRUE)} :
            req' = [req EXCEPT ![r] =
                      IF f.err # Nil
                      THEN [Idle EXCEPT !.pc = "done", !.op = "UpdatePost", !.id = id,
                                        !.in = in, !.err = f.err]
                      ELSE [Idle EXCEPT !.pc = "found", !.op = "UpdatePost", !.id = id,
                                        !.in = in, !.post = f.post]]
        /\ UNCHANGED <<store, nextID, now, ent, last, deleted, db>>

\* PostService.DeletePost: mongoPostRepository.Delete, DeleteOne
ConcDeleteOne ==
    \E r \in Requests, id \in RepoIDs :
        /\ req[r].pc = "idle"
        /\ \E x \in {DeletePost(store, id, 0)} :
            /\ store' = x.coll
            /\ deleted' = IF x.err = Nil THEN deleted \cup {ObjectIDFromHex(id).oid}
                          ELSE deleted
            /\ req' = [req EXCEPT ![r] = [Idle EXCEPT !.pc = "done", !.op = "DeletePost",
                                                      !.id = id, !.err = x.err]]
        /\ UNCHANGED <<nextID, now, ent, last, db>>

\* PostService.GetPosts and PostService.SearchPosts up to the return of
\* FindAll or Search: order is the result of the sort
ConcFind ==
    \E order \in SortedOrders(store), r \in {x \in Requests : req[x].pc = "idle"},
       page \in {1, 2}, pageSize \in {1}, query \in {Str("x", 1), <<>>} :
        /\ req[r].pc = "idle"
        /\ \E limit \in {NormalPageSize(pageSize)} :
           \E offset \in {Times(Dec(NormalPage(GoInt(page))), limit)} :
           \E found \in {IF query = <<>>
                         THEN RepoFindAll(store, limit, offset, order, TRUE)
                         ELSE RepoSearch(store, query, limit, offset, order, TRUE)} :
            req' = [req EXCEPT ![r] =
                      [Idle EXCEPT !.pc = IF found.err # Nil THEN "done" ELSE "count",
                                   !.op = IF query = <<>> THEN "GetPosts" ELSE "SearchPosts",
                                   !.page = page, !.limit = limit, !.query = query,
                                   !.found = found, !.err = found.err,
                                   !.n = IF query = <<>> THEN Cardinality(store)
                                         ELSE Cardinality(SearchFilter(store, query))]]
        /\ UNCHANGED <<store, nextID, now, ent, last, deleted, db>>

\* PostService.GetPosts and PostService.SearchPosts from the call of Count or
\* CountSearch on
ConcCount ==
    \E r \in Requests :
        /\ req[r].pc = "count"
        /\ \E counted \in {IF req[r].op = "GetPosts" THEN RepoCount(store, TRUE)
                           ELSE RepoCountSearch(store, req[r].query, TRUE)} :
           \E x \in {PageResult(req[r].found, counted, "Find", req[r].limit, GoInt(0),
                                "Count")} :
            req' = [req EXCEPT ![r].pc = "done", ![r].err = x.err,
                               ![r].totalPages = x.totalPages]
        /\ UNCHANGED <<store, nextID, now, ent, last, deleted, db>>

RaceNext ==
    \/ RaceCreatePost
    \/ ConcNewObjectID
    \/ ConcInsertOne
    \/ RaceFindByID
    \/ ConcUpdate
    \/ ConcUpdateOne
    \/ ConcDeleteOne
    \/ ConcFind
    \/ ConcCount

SpecRace == RaceInit /\ [][RaceNext]_vars

\* ------------------------------------------- a reader of all the pages
\* One caller asks GetPosts for page 1, 2, ... of a collection that nobody
\* writes, with one page size.  It holds: next the page it asks for next,
\* seen the posts of the pages up to totalPages in the order returned, beyond
\* the posts of the pages after totalPages, totalPages and err what the
\* latest call returned.
\* the collections of up to MaxPosts + 1 posts, created one millisecond apart
\* or all within the same millisecond
WalkStores ==
    { {[d EXCEPT !.createdAt = IF same THEN 1 ELSE d.createdAt,
                 !.updatedAt = IF same THEN 1 ELSE d.updatedAt] : d \in StoreOf(n)} :
          n \in 0..(MaxPosts + 1), same \in BOOLEAN }

WalkInit ==
    /\ store \in WalkStores
    /\ nextID = FirstCounter + Cardinality(store)
    /\ now = Cardinality(store)
    /\ ent = NoPost
    /\ last = NoLast
    /\ deleted = {}
    /\ req \in { [pageSize |-> k, next |-> 1, seen |-> <<>>, beyond |-> <<>>,
                  totalPages |-> 0, err |-> Nil] : k \in {1, 2} }
    /\ db = Migrated

\* the next call of GetPosts: order is the result of the sort of this call
WalkPage ==
    /\ req.err = Nil
    /\ req.next = 1 \/ req.next <= req.totalPages + 1
    /\ \E order \in SortedOrders(store) :
        \E r \in {GetPosts(store, GoInt(req.next), req.pageSize, order, 0)} :
            req' = [req EXCEPT !.next = @ + 1,
                               !.err = r.err,
                               !.totalPages = r.totalPages,
                               !.seen = IF req.next <= r.totalPages THEN @ \o r.posts ELSE @,
                               !.beyond = IF req.next > r.totalPages THEN @ \o r.posts ELSE @]
    /\ UNCHANGED <<store, nextID, now, ent, last, deleted, db>>

SpecWalk == WalkInit /\ [][WalkPage]_vars

\* ------------------------------------------- the request handlers
StatusOK == 200
StatusBadRequest == 400
StatusNotFound == 404
StatusInternalServerError == 500

\* What a handler answers, with what it did: status is the status of the
\* response, err the error the service returned to it, view the template it
\* executed, message the "Error" of the view data, title and content the
\* "Title" and "Content" of the view data, coll, counter and clock as for the
\* service, calls the service methods it called.
\* tmpl is how the template fares: "ok", or it fails before ("early") or after
\* ("late") the first byte of the response, which carries the status, is out.
Rendered(status, tmpl) ==
    IF tmpl = "early" THEN StatusInternalServerError ELSE status

\* PostController.Index and PostController.PostsList: page := 1 unless the
\* query has a page that parses and is > 0.  p is the int that Atoi returns,
\* or <<>> when the query has no "page" or one that Atoi refuses.
RequestedPage(p) == IF p = <<>> \/ LessThanOne(p) THEN GoInt(1) ELSE p

\* view is "index.html" for Index and "posts-list.html" for PostsList,
\* pageSize is config.PageSizeLimit
ListHandler(coll, p, search, pageSize, order, view, fault, tmpl) ==
    LET page == RequestedPage(p)
        r == IF search # <<>>
             THEN SearchPosts(coll, search, page, pageSize, order, fault)
             ELSE GetPosts(coll, page, pageSize, order, fault)
        method == IF search # <<>> THEN "SearchPosts" ELSE "GetPosts"
    IN  IF r.err # Nil
        THEN [status |-> StatusInternalServerError, err |-> r.err, view |-> "error.html",
              message |-> "Internal server error", posts |-> <<>>, totalPages |-> 0,
              page |-> page, calls |-> <<method>>, repo |-> r.calls]
        ELSE [status |-> Rendered(StatusOK, tmpl), err |-> Nil, view |-> view,
              message |-> "", posts |-> r.posts, totalPages |-> r.totalPages,
              page |-> page, calls |-> <<method>>, repo |-> r.calls]

CtlIndex(coll, p, search, pageSize, order, fault, tmpl) ==
    ListHandler(coll, p, search, pageSize, order, "index.html", fault, tmpl)

CtlPostsList(coll, p, search, pageSize, order, fault, tmpl) ==
    ListHandler(coll, p, search, pageSize, order, "posts-list.html", fault, tmpl)

\* PostController.ShowCreateForm
CtlShowCreateForm(tmpl) ==
    [status |-> Rendered(StatusOK, tmpl), err |-> Nil, view |-> "post-form.html",
     message |-> "", calls |-> <<>>]

\* PostController.CreatePost: on the error path the status is written before
\* the template is executed
CtlCreatePost(coll, title, content, n, ts, fault, tmpl) ==
    LET r == CreatePost(coll, title, content, n, ts, fault)
    IN  IF r.err # Nil
        THEN [status |-> StatusBadRequest, err |-> r.err, view |-> "post-form.html",
              message |-> r.err, title |-> title, content |-> content,
              coll |-> r.coll, counter |-> r.counter, clock |-> r.clock,
              post |-> NoPost, calls |-> <<"CreatePost">>]
        ELSE [status |-> Rendered(StatusOK, tmpl), err |-> Nil, view |-> "post-row.html",
              message |-> "", title |-> <<>>, content |-> <<>>,
              coll |-> r.coll, counter |-> r.counter, clock |-> r.clock,
              post |-> r.post, calls |-> <<"CreatePost">>]

ShowHandlerNoIDCheck(coll, id, view, fault, tmpl) ==
    LET r == GetPost(coll, id, fault)
    IN  IF r.err # Nil
        THEN [status |-> StatusNotFound, err |-> r.err, view |-> "error.html",
              message |-> "Post not found", coll |-> coll, calls |-> <<"GetPost">>]
        ELSE [status |-> Rendered(StatusOK, tmpl), err |-> Nil, view |-> view,
              message |-> "", coll |-> coll, calls |-> <<"GetPost">>]

\* PostController.ShowPost and PostController.ShowEditForm: view is
\* "post-detail.html" for the one and "post-form.html" for the other
ShowHandler(coll, id, view, fault, tmpl) ==
    LET r == GetPost(coll, id, fault)
    IN  IF id = <<>>
        THEN [status |-> StatusBadRequest, err |-> Nil, view |-> "error.html",
              message |-> "Post ID required", coll |-> coll, calls |-> <<>>]
        ELSE IF r.err # Nil
        THEN [status |-> StatusNotFound, err |-> r.err, view |-> "error.html",
              message |-> "Post not found", coll |-> coll, calls |-> <<"GetPost">>]
        ELSE [status |-> Rendered(StatusOK, tmpl), err |-> Nil, view |-> view,
              message |-> "", coll |-> coll, calls |-> <<"GetPost">>]

CtlShowPost(coll, id, fault, tmpl) ==
    ShowHandler(coll, id, "post-detail.html", fault, tmpl)

CtlShowEditForm(coll, id, fault, tmpl) ==
    ShowHandler(coll, id, "post-form.html", fault, tmpl)

\* PostController.UpdatePost: fault2 is whether the FindOne of its second
\* lookup fails.  On the error path the status is written before the template
\* is executed.
CtlUpdatePost(coll, id, title, content, ts, fault, fault2, tmpl) ==
    LET r == UpdatePost(coll, id, title, content, ts, fault)
        original == GetPost(r.coll, id, fault2)
    IN  IF r.err # Nil
        THEN IF original.err # Nil
             THEN [status |-> StatusNotFound, err |-> r.err, view |-> "error.html",
                   message |-> "Post not found", title |-> <<>>, content |-> <<>>,
                   coll |-> r.coll, clock |-> r.clock,
                   calls |-> <<"UpdatePost", "GetPost">>]
             ELSE [status |-> StatusBadRequest, err |-> r.err, view |-> "post-form.html",
                   message |-> r.err, title |-> title, content |-> content,
                   coll |-> r.coll, clock |-> r.clock,
                   calls |-> <<"UpdatePost", "GetPost">>]
        ELSE [status |-> Rendered(StatusOK, tmpl), err |-> Nil, view |-> "post-row.html",
              message |-> "", title |-> <<>>, content |-> <<>>,
              coll |-> r.coll, clock |-> r.clock,
              calls |-> <<"UpdatePost">>]

\* PostController.DeletePost
CtlDeletePost(coll, id, fault) ==
    LET r == DeletePost(coll, id, fault)
    IN  IF id = <<>>
        THEN [status |-> StatusBadRequest, err |-> Nil, view |-> "error.html",
              message |-> "Post ID required", coll |-> coll, calls |-> <<>>]
        ELSE IF r.err # Nil
        THEN [status |-> StatusInternalServerError, err |-> r.err, view |-> "error.html",
              message |-> "Failed to delete post", coll |-> r.coll,
              calls |-> <<"DeletePost">>]
        ELSE [status |-> StatusOK, err |-> Nil, view |-> "", message |-> "",
              coll |-> r.coll, calls |-> <<"DeletePost">>]

\* the identifiers a request can carry: those of IDStrings and none at all
RequestIDs == IDStrings \cup {<<>>}

\* The routes of the two handlers that read the identifier from the path:
\* PUT "/posts" has no parameter, DELETE "/posts/:id" has the parameter id.
UpdateRouteHasID == FALSE
DeleteRouteHasID == TRUE

\* A request for "/posts" followed by id, or for "/posts" alone when id is
\* empty, matches a route with the parameter when there is an id and a route
\* without when there is none.
Routed(hasID, id) == hasID <=> (id # <<>>)

\* ctx.Param("id") in the handler of a route: a parameter the route has not
\* is ""
ParamID(hasID, id) == IF hasID THEN id ELSE <<>>

\* the answer of the router to a request that matches no route
NoRoute ==
    [status |-> StatusNotFound, err |-> Nil, view |-> "",
     message |-> "404 page not found", calls |-> <<>>]

Templates == {"ok", "early", "late"}

\* the title and content of a form: valid ones, a blank title, no content
HandlerInputs ==
    { [title |-> Padded(Str("A", 1)), content |-> Padded(Str("B", 1))],
      [title |-> Str(" ", 3), content |-> Str("B", 1)],
      [title |-> Str("A", 1), content |-> <<>>] }

\* the list requests: page, search and the page size of the configuration
HandlerLists ==
    [p : {<<>>, GoInt(0), GoInt(1), GoInt(2), WrappingPage},
     search : { <<>>, <<<<"G", 1>>, <<"o", 1>>>>, Str("(", 1) },
     pageSize : {1, DefaultPageSize}]

\* the handlers serve a collection that holds some posts already
HandlerInit ==
    /\ store \in { {[d EXCEPT !.createdAt = 0, !.updatedAt = 0] : d \in StoreOf(n)} :
                       n \in 0..MaxPosts }
    /\ nextID = FirstCounter + Cardinality(store)
    /\ now = 0
    /\ ent = NoPost
    /\ last = NoLast
    /\ deleted = {}
    /\ req = <<>>
    /\ db = Migrated

CtlIndexCall ==
    /\ last = NoLast
    /\ \E order \in SortedOrders(store), l \in HandlerLists, fault \in 0..2,
          tmpl \in Templates :
        \E r \in {CtlIndex(store, l.p, l.search, l.pageSize, order, fault, tmpl)} :
            /\ last' = [NoLast EXCEPT !.op = "Index", !.page = l.p, !.query = l.search,
                            !.pageSize = l.pageSize, !.fault = fault, !.err = r.err,
                            !.status = r.status, !.view = r.view,
                            !.message = r.message, !.posts = r.posts,
                            !.totalPages = r.totalPages, !.calls = r.calls]
            /\ UNCHANGED <<store, nextID, now, ent, deleted, req, db>>

CtlPostsListCall ==
    /\ last = NoLast
    /\ \E order \in SortedOrders(store), l \in HandlerLists, fault \in 0..2,
          tmpl \in Templates :
        \E r \in {CtlPostsList(store, l.p, l.search, l.pageSize, order, fault, tmpl)} :
            /\ last' = [NoLast EXCEPT !.op = "PostsList", !.page = l.p, !.query = l.search,
                            !.pageSize = l.pageSize, !.fault = fault, !.err = r.err,
                            !.status = r.status, !.view = r.view,
                            !.message = r.message, !.posts = r.posts,
                            !.totalPages = r.totalPages, !.calls = r.calls]
            /\ UNCHANGED <<store, nextID, now, ent, deleted, req, db>>

CtlShowCreateFormCall ==
    /\ last = NoLast
    /\ \E tmpl \in Templates :
        \E r \in {CtlShowCreateForm(tmpl)} :
            /\ last' = [NoLast EXCEPT !.op = "ShowCreateForm", !.status = r.status,
                            !.view = r.view, !.calls = r.calls]
            /\ UNCHANGED <<store, nextID, now, ent, deleted, req, db>>

CtlCreatePostCall ==
    /\ last = NoLast
    /\ nextID < FirstCounter + MaxPosts
    /\ \E in \in HandlerInputs, ts \in Readings(3), fault \in 0..1, tmpl \in Templates :
        \E r \in {CtlCreatePost(store, in.title, in.content, nextID, ts, fault, tmpl)} :
            /\ store' = r.coll
            /\ nextID' = r.counter
            /\ now' = r.clock
            /\ last' = [NoLast EXCEPT !.op = "CreatePostHandler", !.title = in.title,
                            !.content = in.content, !.fault = fault, !.err = r.err,
                            !.status = r.status, !.view = r.view,
                            !.message = r.message, !.formTitle = r.title,
                            !.formContent = r.content, !.post = r.post,
                            !.calls = r.calls]
            /\ UNCHANGED <<ent, deleted, req, db>>

CtlShowPostCall ==
    /\ last = NoLast
    /\ \E id \in RequestIDs, fault \in 0..1, tmpl \in Templates :
        \E r \in {CtlShowPost(store, id, fault, tmpl)} :
            /\ last' = [NoLast EXCEPT !.op = "ShowPost", !.id = id, !.param = id,
                            !.fault = fault, !.err = r.err, !.status = r.status,
                            !.view = r.view, !.message = r.message,
                            !.calls = r.calls]
            /\ UNCHANGED <<store, nextID, now, ent, deleted, req, db>>

CtlShowEditFormCall ==
    /\ last = NoLast
    /\ \E id \in RequestIDs, fault \in 0..1, tmpl \in Templates :
        \E r \in {CtlShowEditForm(store, id, fault, tmpl)} :
            /\ last' = [NoLast EXCEPT !.op = "ShowEditForm", !.id = id, !.param = id,
                            !.fault = fault, !.err = r.err, !.status = r.status,
                            !.view = r.view, !.message = r.message,
                            !.calls = r.calls]
            /\ UNCHANGED <<store, nextID, now, ent, deleted, req, db>>

\* a PUT request for "/posts" followed by id
CtlUpdatePostCall ==
    /\ last = NoLast
    /\ \E id \in RequestIDs, in \in HandlerInputs,
          ts \in Readings(2), fault \in 0..2, fault2 \in 0..1, tmpl \in Templates :
        IF Routed(UpdateRouteHasID, id)
        THEN \E r \in {CtlUpdatePost(store, ParamID(UpdateRouteHasID, id), in.title,
                                     in.content, ts, fault, fault2, tmpl)} :
                /\ store' = r.coll
                /\ now' = r.clock
                /\ last' = [NoLast EXCEPT !.op = "UpdatePostHandler", !.id = id,
                                !.param = ParamID(UpdateRouteHasID, id),
                                !.title = in.title, !.content = in.content,
                                !.fault = fault, !.err = r.err, !.status = r.status,
                                !.view = r.view, !.message = r.message,
                                !.formTitle = r.title, !.formContent = r.content,
                                !.calls = r.calls]
                /\ UNCHANGED <<nextID, ent, deleted, req, db>>
        ELSE /\ last' = [NoLast EXCEPT !.op = "PUT no route", !.id = id,
                             !.title = in.title, !.content = in.content,
                             !.status = NoRoute.status, !.message = NoRoute.message,
                             !.calls = NoRoute.calls]
             /\ UNCHANGED <<store, nextID, now, ent, deleted, req, db>>

\* a DELETE request for "/posts" followed by id
CtlDeletePostCall ==
    /\ last = NoLast
    /\ \E id \in RequestIDs, fault \in 0..1 :
        IF Routed(DeleteRouteHasID, id)
        THEN \E r \in {CtlDeletePost(store, ParamID(DeleteRouteHasID, id), fault)} :
                /\ store' = r.coll
                /\ deleted' = IF r.status = StatusOK
                               THEN deleted \cup {ObjectIDFromHex(id).oid}
                               ELSE deleted
                /\ last' = [NoLast EXCEPT !.op = "DeletePostHandler", !.id = id,
                                !.param = ParamID(DeleteRouteHasID, id),
                                !.fault = fault, !.err = r.err, !.status = r.status,
                                !.view = r.view, !.message = r.message,
                                !.calls = r.calls]
                /\ UNCHANGED <<nextID, now, ent, req, db>>
        ELSE /\ last' = [NoLast EXCEPT !.op = "DELETE no route", !.id = id,
                             !.status = NoRoute.status, !.message = NoRoute.message,
                             !.calls = NoRoute.calls]
             /\ UNCHANGED <<store, nextID, now, ent, deleted, req, db>>

HandlerNext ==
    \/ CtlIndexCall
    \/ CtlPostsListCall
    \/ CtlShowCreateFormCall
    \/ CtlCreatePostCall
    \/ CtlShowPostCall
    \/ CtlShowEditFormCall
    \/ CtlUpdatePostCall
    \/ CtlDeletePostCall
    \/ Respond

SpecHandler == HandlerInit /\ [][HandlerNext]_vars

\* ------------------------------------------- the startups of the server
\* indexes that "posts" can have when the server starts: the two of the
\* migration, one with the name of the first and other keys, another text index
IndexPool ==
    { CreatedAtIndex, TextIndex,
      [name |-> "created_at_desc", keys |-> << <<"created_at", "1">> >>],
      [name |-> "search", keys |-> << <<"title", "text">> >>] }

\* The server starts on any database: with or without the collection, with
\* any indexes the server lets a collection have together (no two of one
\* name, of the same keys, or both text), with posts stored by earlier runs.
MigrateInit ==
    /\ db \in { [collections |-> c, indexes |-> ixs, migrated |-> FALSE] :
                   c \in SUBSET {"posts", "users"},
                   ixs \in {x \in SUBSET IndexPool :
                               \A a \in x, b \in x :
                                   a # b => /\ a.name # b.name
                                            /\ a.keys # b.keys
                                            /\ ~(IsText(a) /\ IsText(b))} }
    /\ db.indexes # {} => "posts" \in db.collections
    /\ store \in { {[d EXCEPT !.createdAt = 0, !.updatedAt = 0] : d \in StoreOf(n)} :
                       n \in 0..MaxPosts }
    /\ store # {} => "posts" \in db.collections
    /\ nextID = FirstCounter + Cardinality(store)
    /\ now = 0
    /\ ent = NoPost
    /\ last = NoLast
    /\ deleted = {}
    /\ req = <<>>

\* Connect, up to the return of migrate
MigrateCall ==
    /\ last = NoLast
    /\ \E fault \in 0..4 :
        \E r \in {migrate(db, fault)} :
            /\ db' = [r.db EXCEPT !.migrated = @ \/ (r.err = Nil)]
            /\ last' = [NoLast EXCEPT !.op = "migrate", !.fault = fault, !.err = r.err,
                            !.dbops = r.dbops, !.again = db.migrated]
            /\ UNCHANGED <<store, nextID, now, ent, deleted, req>>

\* Respond: the server stops
MigrateNext == MigrateCall \/ Respond

SpecMigrate == MigrateInit /\ [][MigrateNext]_vars

\* ================================================================ claims

Min(S) == CHOOSE x \in S : \A y \in S : x <= y

\* the four checks of the entity rules, in the order the claim names them
C4_Checks(p) ==
    << [fails |-> TrimSpace(p.title) = <<>>, msg |-> ErrTitleRequired],
       [fails |-> ByteLen(p.title) > MaxTitleLen, msg |-> ErrTitleTooLong],
       [fails |-> TrimSpace(p.content) = <<>>, msg |-> ErrContentRequired],
       [fails |-> ByteLen(p.content) > MaxContentLen, msg |-> ErrContentTooLong] >>

C4_Failing(p) == {i \in 1..4 : C4_Checks(p)[i].fails}

\* C4: Validate returns exactly the message of the first failing check in the
\* order title-required, title-length, content-required, content-length, and
\* returns no error if and only if all four checks pass.
C4_ValidateFirstFailing ==
    last.op = "Validate" =>
        /\ (last.err = Nil) <=> (C4_Failing(ent) = {})
        /\ C4_Failing(ent) # {} =>
               last.err = C4_Checks(ent)[Min(C4_Failing(ent))].msg

\* C4 witness: two checks fail at once and the earlier one's message came back
C4_Witness ==
    /\ last.op = "Validate"
    /\ C4_Failing(ent) = {2, 3}
    /\ last.err = ErrTitleTooLong

\* C5 as stated: an empty trimmed title gives "title is required", and a
\* non-empty trimmed title with an empty trimmed content gives "content is
\* required", for every title/content pair.
C5_Original ==
    last.op = "Validate" =>
        /\ TrimSpace(ent.title) = <<>> => last.err = ErrTitleRequired
        /\ (TrimSpace(ent.title) # <<>> /\ TrimSpace(ent.content) = <<>>) =>
               last.err = ErrContentRequired

\* C5 (amended): an empty trimmed title gives "title is required"; a non-empty
\* trimmed title of at most 200 bytes with an empty trimmed content gives
\* "content is required" (a longer title is reported first).
C5_RequiredMessages ==
    last.op = "Validate" =>
        /\ TrimSpace(ent.title) = <<>> => last.err = ErrTitleRequired
        /\ ( /\ TrimSpace(ent.title) # <<>>
             /\ ByteLen(ent.title) <= MaxTitleLen
             /\ TrimSpace(ent.content) = <<>> ) =>
               last.err = ErrContentRequired

\* C5 witness: both required-field cases were validated: here the content one
C5_Witness ==
    /\ last.op = "Validate"
    /\ TrimSpace(ent.title) # <<>>
    /\ ByteLen(ent.title) = MaxTitleLen
    /\ TrimSpace(ent.content) = <<>>
    /\ last.err = ErrContentRequired

\* a field value that is valid whether its length is counted in characters or bytes
C6_Plain(s, max) == TrimSpace(s) # <<>> /\ ByteLen(s) <= max

\* C6 as stated: with the other field valid, a trimmed title of exactly 200
\* characters passes and one of 201 fails with the title length message; a
\* content of 10000 characters passes and one of 10001 fails with the content
\* length message.
C6_Original ==
    last.op = "Validate" =>
        /\ (C6_Plain(ent.content, MaxContentLen) /\ RuneCount(ent.title) = MaxTitleLen)
               => last.err = Nil
        /\ (C6_Plain(ent.content, MaxContentLen) /\ RuneCount(ent.title) = MaxTitleLen + 1)
               => last.err = ErrTitleTooLong
        /\ (C6_Plain(ent.title, MaxTitleLen) /\ RuneCount(ent.content) = MaxContentLen)
               => last.err = Nil
        /\ (C6_Plain(ent.title, MaxTitleLen) /\ RuneCount(ent.content) = MaxContentLen + 1)
               => last.err = ErrContentTooLong

\* ---------------------------------------------------------------- C1
\* C1: CreatePost validates before it persists: when validation fails it
\* returns the validation error, calls no repository method and leaves the
\* collection as it was; when it succeeds exactly one document is added, every
\* other document is unchanged and the returned entity carries the id of the
\* added document.
C1_CreatePost ==
    [][ last'.op = "CreatePost" =>
          LET verr == Validate(NewPost(last'.title, last'.content, 0))
          IN  /\ verr # Nil =>
                    /\ last'.err = verr
                    /\ last'.calls = <<>>
                    /\ last'.dbops = <<>>
                    /\ store' = store
              /\ last'.err = Nil =>
                    /\ verr = Nil
                    /\ Cardinality(store') = Cardinality(store) + 1
                    /\ store \subseteq store'
                    /\ \E d \in store' \ store :
                          /\ d.id \notin IDs(store)
                          /\ d.id # NilObjectID
                          /\ last'.post.id = d.id
                          /\ last'.post = d
              /\ (verr = Nil /\ last'.fault = 0) => last'.err = Nil
      ]_vars

\* C1 witness: a post was created next to an existing one
C1_Witness ==
    /\ last.op = "CreatePost"
    /\ last.err = Nil
    /\ Cardinality(store) = 2
    /\ last.post \in store

\* ---------------------------------------------------------------- C2
C2_Target(coll, id) ==
    LET parsed == ObjectIDFromHex(id) IN {d \in coll : d.id = parsed.oid}

\* with what FindByID and Validate had to say, the outcome of an UpdatePost step
C2_Outcome(parsed, target, verr) ==
    LET findFails == parsed.err # Nil \/ target = {} \/ last'.fault = 1
    IN  /\ (findFails \/ verr # Nil) =>
              /\ last'.err # Nil
              /\ \A i \in 1..Len(last'.calls) : last'.calls[i][1] # "Update"
              /\ \A i \in 1..Len(last'.dbops) : last'.dbops[i] # "UpdateOne"
              /\ store' = store
        /\ parsed.err # Nil => last'.err = ErrInvalidID
        /\ (parsed.err = Nil /\ target = {} /\ last'.fault # 1) =>
              last'.err = ErrPostNotFound
        /\ (~findFails /\ verr # Nil) => last'.err = verr
        /\ last'.err = Nil =>
              \E d \in store' :
                  /\ d.id = parsed.oid
                  /\ d.title = TrimSpace(last'.title)
                  /\ d.content = TrimSpace(last'.content)
                  /\ store' \ {d} = store \ target

\* C2: UpdatePost loads, updates, validates and only then persists: when
\* FindByID fails or validation fails, the repository's Update is not called
\* and the collection is exactly what it was; on success the stored title and
\* content are the trimmed inputs.
C2_UpdatePost ==
    [][ last'.op = "UpdatePost" =>
          \A parsed \in {ObjectIDFromHex(last'.id)} :
              \A target \in {{d \in store : d.id = parsed.oid}} :
                  \A verr \in {Validate(NewPost(last'.title, last'.content, 0))} :
                      C2_Outcome(parsed, target, verr)
      ]_vars

\* C2 witness: an update of a stored post was refused by validation
C2_Witness ==
    /\ last.op = "UpdatePost"
    /\ last.err = ErrTitleTooLong
    /\ C2_Target(store, last.id) # {}

\* ---------------------------------------------------------------- C3
C3_Within(s, max) ==
    /\ s = TrimSpace(s)
    /\ s # <<>>
    /\ ByteLen(s) <= max
    /\ RuneCount(s) <= max

\* C3: every stored post has a title and a content that equal their own
\* trimmed value, are non-empty and are within the length bound.
C3_StoredPostsValid ==
    \A d \in store :
        C3_Within(d.title, MaxTitleLen) /\ C3_Within(d.content, MaxContentLen)

\* C3 witness: a title of exactly the bound is stored, and an entity that broke
\* the rules has just been refused
C3_Witness ==
    /\ \E d \in store : ByteLen(d.title) = MaxTitleLen
    /\ last.op \in {"CreatePost", "UpdatePost"}
    /\ last.err \in {ErrTitleRequired, ErrTitleTooLong, ErrContentRequired,
                     ErrContentTooLong}

\* ---------------------------------------------------------------- C7
\* the remainder and the quotient of the non-negative x divided by k > 0
RECURSIVE C7_Rem(_, _, _)
C7_Rem(x, k, i) ==
    IF i > IntLimbs THEN 0 ELSE (C7_Rem(x, k, i + 1) * LimbBase + x[i]) % k

C7_Quot(x, k) ==
    [i \in 1..IntLimbs |-> (C7_Rem(x, k, i + 1) * LimbBase + x[i]) \div k]

\* offset is the number x * k itself (x >= 0, k > 0), not that number wrapped
C7_IsProduct(offset, x, k) ==
    /\ ~IsNegative(offset)
    /\ C7_Rem(offset, k, 1) = 0
    /\ C7_Quot(offset, k) = x

C7_PageSize(pageSize) == IF pageSize < 1 THEN 10 ELSE IF pageSize > 100 THEN 100 ELSE pageSize

C7_Page(page) == IF LessThanOne(page) THEN GoInt(1) ELSE page

C7_SameAnswers ==
    \A order \in SortedOrders(store) :
        /\ GetPosts(store, GoInt(0), 0, order, 0) = GetPosts(store, GoInt(1), 10, order, 0)
        /\ GetPosts(store, GoInt(1), 150, order, 0) = GetPosts(store, GoInt(1), 100, order, 0)

\* C7 as stated: GetPosts and SearchPosts call the store with limit = the
\* normalized pageSize and offset = (normalized page - 1) * normalized
\* pageSize; GetPosts(0, 0) answers as GetPosts(1, 10) and GetPosts(1, 150) as
\* GetPosts(1, 100).
C7_Original ==
    /\ C7_SameAnswers
    /\ last.op \in {"GetPosts", "SearchPosts"} =>
          /\ last.calls[1][1] = (IF last.op = "GetPosts" THEN "FindAll" ELSE "Search")
          /\ last.calls[1][2] = C7_PageSize(last.pageSize)
          /\ C7_IsProduct(last.calls[1][3], Dec(C7_Page(last.page)),
                          C7_PageSize(last.pageSize))

\* a page number below 2^16: no product with a page size wraps
C7_SmallPage(page) == IsNegative(page) \/ \A i \in 2..IntLimbs : page[i] = 0

\* C7 for the page numbers whose offset does not wrap around
C7_WithoutWrap ==
    /\ C7_SameAnswers
    /\ (last.op \in {"GetPosts", "SearchPosts"} /\ C7_SmallPage(last.page)) =>
          /\ last.calls[1][1] = (IF last.op = "GetPosts" THEN "FindAll" ELSE "Search")
          /\ last.calls[1][2] = C7_PageSize(last.pageSize)
          /\ C7_IsProduct(last.calls[1][3], Dec(C7_Page(last.page)),
                          C7_PageSize(last.pageSize))

\* ---------------------------------------------------------------- C8
C8_Min(a, b) == IF a < b THEN a ELSE b
C8_Max(a, b) == IF a > b THEN a ELSE b

\* min(pageSize', max(0, n - (page' - 1) * pageSize')): a page' of 2^16 or
\* more is past every post of the stores at hand
C8_Expected(n, page, pageSize) ==
    LET p == C7_Page(page)
        ps == C7_PageSize(pageSize)
    IN  IF \A i \in 2..IntLimbs : p[i] = 0
        THEN C8_Min(ps, C8_Max(0, n - (p[1] - 1) * ps))
        ELSE 0

C8_Ceil(n, k) == CHOOSE q \in 0..n : q * k >= n /\ (q = 0 \/ (q - 1) * k < n)

C8_Fifteen ==
    Cardinality(store) = 15 =>
        \A order \in SortedOrders(store) :
            /\ Len(GetPosts(store, GoInt(1), 10, order, 0).posts) = 10
            /\ GetPosts(store, GoInt(1), 10, order, 0).totalPages = 2
            /\ Len(GetPosts(store, GoInt(2), 10, order, 0).posts) = 5
            /\ \A d \in store :
                  Cardinality({i \in 1..10 : GetPosts(store, GoInt(1), 10, order, 0).posts[i] = d})
                    + Cardinality({i \in 1..5 : GetPosts(store, GoInt(2), 10, order, 0).posts[i] = d})
                    = 1

\* C8 as stated: with N stored posts GetPosts returns
\* min(pageSize', max(0, N - (page' - 1) * pageSize')) posts and
\* totalPages = ceil(N / pageSize'); with 15 posts GetPosts(1, 10) returns 10
\* posts and 2 pages and GetPosts(2, 10) the other 5.
C8_Original ==
    /\ C8_Fifteen
    /\ (last.op = "GetPosts" /\ last.fault = 0) =>
          /\ last.err = Nil
          /\ Len(last.posts) = C8_Expected(Cardinality(store), last.page, last.pageSize)
          /\ last.totalPages = C8_Ceil(Cardinality(store), C7_PageSize(last.pageSize))

\* C8 for the page numbers whose offset does not wrap around
C8_WithoutWrap ==
    /\ C8_Fifteen
    /\ (last.op = "GetPosts" /\ last.fault = 0 /\ C7_SmallPage(last.page)) =>
          /\ last.err = Nil
          /\ Len(last.posts) = C8_Expected(Cardinality(store), last.page, last.pageSize)
          /\ last.totalPages = C8_Ceil(Cardinality(store), C7_PageSize(last.pageSize))

\* ---------------------------------------------------------------- C9
\* C9: once a post has been deleted, GetPost on its id yields NotFound, another
\* delete of it yields NotFound and changes nothing, and no document ever has
\* its id again, whatever calls follow (calls the database fails aside).
C9_DeletedStaysDeleted ==
    [][ /\ IDs(store') \cap deleted' = {}
        /\ ( /\ last'.op \in {"GetPost", "DeletePost"}
             /\ last'.fault = 0
             /\ ObjectIDFromHex(last'.id).err = Nil
             /\ ObjectIDFromHex(last'.id).oid \in deleted ) =>
                /\ last'.err = ErrPostNotFound
                /\ store' = store
      ]_vars

\* C9 witness: a post is looked up after it was deleted and a later post was
\* created
C9_Witness ==
    /\ last.op = "GetPost"
    /\ last.err = ErrPostNotFound
    /\ ObjectIDFromHex(last.id).oid \in deleted
    /\ \E d \in store : d.id[ObjectIDLen] > ObjectIDFromHex(last.id).oid[ObjectIDLen]

\* ---------------------------------------------------------------- C10
C10_HexChars == {"0", "1", "2", "3", "4", "5", "6", "7", "8", "9",
                 "a", "b", "c", "d", "e", "f", "A", "B", "C", "D", "E", "F"}

\* a well-formed object id: 24 hexadecimal digits
C10_WellFormed(id) ==
    Len(id) = 2 * ObjectIDLen /\ \A i \in 1..Len(id) : id[i] \in C10_HexChars

\* C10: GetPost and DeletePost given a string that is no well-formed object id
\* return InvalidID without a database call and without changing the
\* collection; given a well-formed id of no document they return NotFound; a
\* well-formed id never gives InvalidID; both return the repository's error as
\* it is.
C10_InvalidIDNotFound ==
    [][ last'.op \in {"GetPost", "DeletePost"} =>
          LET id == last'.id
              repoErr == IF last'.op = "GetPost"
                         THEN RepoFindByID(store, id, last'.fault # 1).err
                         ELSE RepoDelete(store, id, last'.fault # 1).err
          IN  /\ ~C10_WellFormed(id) =>
                    /\ last'.err = ErrInvalidID
                    /\ last'.dbops = <<>>
                    /\ store' = store
              /\ C10_WellFormed(id) => last'.err # ErrInvalidID
              /\ ( /\ C10_WellFormed(id)
                   /\ last'.fault = 0
                   /\ Hex(ObjectIDFromHex(id).oid) \notin {Hex(d.id) : d \in store} ) =>
                    last'.err = ErrPostNotFound
              /\ last'.err = repoErr
      ]_vars

\* C10 witness: a delete with a string of the right length that is no object
\* id was refused while posts were stored
C10_Witness ==
    /\ last.op = "DeletePost"
    /\ Len(last.id) = 2 * ObjectIDLen
    /\ ~C10_WellFormed(last.id)
    /\ last.err = ErrInvalidID
    /\ store # {}

\* ---------------------------------------------------------------- C11
\* the stored posts have pairwise distinct identifiers, none of them zero
C11_DistinctIDs(coll) ==
    /\ \A d \in coll : d.id # NilObjectID
    /\ \A d1 \in coll, d2 \in coll : d1.id = d2.id => d1 = d2

\* request r's Create inserts: the post it was given is stored under an
\* identifier no stored post has, with the timestamps read during the call,
\* whatever identifier and timestamps it came with; no record is touched
C11_Insert(r) ==
    /\ req'[r].err = Nil
    /\ store \subseteq store'
    /\ \E d \in store' \ store :
          /\ store' = store \cup {d}
          /\ d.id \notin IDs(store) \cup {NilObjectID}
          /\ d.createdAt \in req[r].seen..now'
          /\ d.updatedAt \in d.createdAt..now'
          /\ d.title = req[r].post.title
          /\ d.content = req[r].post.content
          /\ req'[r].post = d

\* C11: Create assigns each post a fresh identifier and fresh timestamps,
\* overwriting those the caller supplied: in every interleaving of Create
\* calls the stored posts have pairwise distinct non-zero identifiers and no
\* Create overwrites or replaces a stored record.
C11_CreateFresh ==
    [][ /\ C11_DistinctIDs(store')
        /\ \A r \in Requests :
              (req[r].pc = "insert" /\ req'[r].pc = "done") => C11_Insert(r)
      ]_vars

\* C11 witness: a caller handed Create a post that carried the identifier
\* another request had drawn and a time yet to come; it drew its own
\* identifier later and inserted first, and then the other request inserted
C11_Witness ==
    \E r \in Requests, q \in Requests :
        /\ req[r].op = "Create" /\ req[r].pc = "done" /\ req[r].err = Nil
        /\ req[q].op = "CreatePost" /\ req[q].pc = "done" /\ req[q].err = Nil
        /\ req[q].n = FirstCounter
        /\ req[q].post.createdAt > req[r].post.createdAt
        /\ Cardinality(store) = 2

\* ---------------------------------------------------------------- C12
\* the identifier the step's update is keyed by: the post's in a store Update,
\* the parsed argument in an UpdatePost
C12_Key ==
    IF last'.op = "StoreUpdate" THEN ent.id ELSE ObjectIDFromHex(last'.id).oid

\* d is a stored record the step wrote to: it is still there under its id with
\* its createdAt, it is the one record the update is keyed by, the update
\* succeeded, and nothing but title, content and updatedAt differs
C12_Written(d) ==
    /\ last'.op \in {"StoreUpdate", "UpdatePost"}
    /\ last'.err = Nil
    /\ d.id = C12_Key
    /\ \E d2 \in store' \ store :
          /\ d2 = [d EXCEPT !.title = d2.title, !.content = d2.content,
                            !.updatedAt = d2.updatedAt]
          /\ store' = (store \ {d}) \cup {d2}

\* C12: from the moment a post is persisted until it is deleted its id and
\* createdAt never change: a record leaves the collection only by Delete, no
\* entity Update changes a post's id or createdAt, and a store Update (alone
\* or within UpdatePost, successful or failed) writes only title, content and
\* updatedAt of the one record whose id matches, leaving every other record
\* as it was.
C12_IdCreatedAtFrozen ==
    [][ /\ \A d \in store \ store' :
              IF last'.op = "Delete"
              THEN d.id = ObjectIDFromHex(last'.id).oid /\ store' = store \ {d}
              ELSE C12_Written(d)
        /\ last'.op \in {"StoreUpdate", "UpdatePost"} => IDs(store') = IDs(store)
        /\ (last'.op \in {"StoreUpdate", "UpdatePost"} /\ last'.err # Nil) =>
              store' = store
        /\ last'.op \in {"Update", "StoreUpdate"} =>
              ent'.id = ent.id /\ ent'.createdAt = ent.createdAt
      ]_vars

\* C12 witness: with two posts stored a store Update has written a new title
\* and a later updatedAt to one of them, which still has its createdAt
C12_Witness ==
    /\ last.op = "StoreUpdate"
    /\ last.err = Nil
    /\ Cardinality(store) = 2
    /\ \E d \in store :
          /\ d.id = ent.id
          /\ d.title = <<>>
          /\ d.createdAt < d.updatedAt

\* ---------------------------------------------------------------- C13
\* C13: createdAt <= updatedAt for the post in memory, for the post a call
\* returned and for every stored post, in every state NewPost, the store's
\* Create, the entity's Update and the store's Update lead to, the clock never
\* going back.
C13_CreatedBeforeUpdated ==
    /\ ent # NoPost => ent.createdAt <= ent.updatedAt
    /\ last.post # NoPost => last.post.createdAt <= last.post.updatedAt
    /\ \A d \in store : d.createdAt <= d.updatedAt
    /\ \A d \in store \cup {ent} : d.updatedAt <= now

\* C13 witness: a stored post was loaded and saved a tick after its creation,
\* next to a post for which Create read the clock twice, a tick apart
C13_Witness ==
    /\ last.op = "StoreUpdate"
    /\ last.err = Nil
    /\ ent.createdAt < ent.updatedAt
    /\ \E d \in store, c \in store :
          /\ d.id = ent.id /\ d.updatedAt = ent.updatedAt
          /\ c.id # d.id /\ c.createdAt < c.updatedAt

\* ---------------------------------------------------------------- C14
\* t is s with the whitespace around it stripped: a stretch of s that neither
\* starts nor ends with whitespace, with nothing but whitespace before and
\* after it
IsStripped(s, t) ==
    \E i \in 1..(Len(s) + 1), j \in 0..Len(s) :
        /\ t = SubSeq(s, i, j)
        /\ \A k \in 1..Len(s) : (k < i \/ k > j) => IsSpace(s[k][1])
        /\ t = <<>> \/ (~IsSpace(t[1][1]) /\ ~IsSpace(t[Len(t)][1]))

\* C14: the entity's Update replaces title and content by the stripped
\* arguments whatever they are (it validates nothing and gives no error), sets
\* updatedAt to the current time, which is never before the prior updatedAt
\* and is after it when the call comes a time unit or more later, and leaves
\* id and createdAt alone; a successful UpdatePost leaves the stored updatedAt
\* at the time of its last reading of the clock, and returns the stored post.
C14_UpdateRefreshes ==
    [][ /\ last'.op = "Update" =>
              /\ last'.err = Nil
              /\ IsStripped(last'.title, ent'.title)
              /\ IsStripped(last'.content, ent'.content)
              /\ ent'.updatedAt = now'
              /\ ent'.updatedAt >= ent.updatedAt
              /\ now' >= ent.updatedAt + 1 => ent'.updatedAt > ent.updatedAt
              /\ ent'.createdAt = ent.createdAt
              /\ ent'.id = ent.id
        /\ (last'.op = "UpdatePost" /\ last'.err = Nil) =>
              \E d \in store, d2 \in store' :
                  /\ d.id = d2.id
                  /\ Hex(d.id) = last'.id
                  /\ d2.updatedAt = now'
                  /\ d2.updatedAt >= d.updatedAt
                  /\ now' >= d.updatedAt + 1 => d2.updatedAt > d.updatedAt
                  /\ d2.createdAt = d.createdAt
                  /\ last'.post = d2
      ]_vars

\* C14 witness: an Update a tick after the post's creation gave it a blank
\* title, which nothing refused, and a later updatedAt
C14_Witness ==
    /\ last.op = "Update"
    /\ last.title = Str(" ", 3)
    /\ ent.title = <<>>
    /\ ent.createdAt < ent.updatedAt
    /\ ent.id # NilObjectID

\* ---------------------------------------------------------------- C15
\* C15: the constructor gives, for every title and content and with no error,
\* an entity whose title and content are the inputs with the whitespace around
\* them stripped and whose createdAt and updatedAt are the one reading of the
\* clock; "  A  ", "  B  " gives title "A" and content "B"; values the rules
\* refuse are constructed all the same.
C15_NewPost ==
    last.op = "NewPost" =>
        /\ ent # NoPost
        /\ last.err = Nil
        /\ IsStripped(last.title, ent.title)
        /\ IsStripped(last.content, ent.content)
        /\ ent.createdAt = ent.updatedAt
        /\ ent.createdAt = now
        /\ ent.id = NilObjectID
        /\ (last.title = <<<<" ", 2>>, <<"A", 1>>, <<" ", 2>>>>
              /\ last.content = <<<<" ", 2>>, <<"B", 1>>, <<" ", 2>>>>) =>
                 (ent.title = <<<<"A", 1>>>> /\ ent.content = <<<<"B", 1>>>>)

\* C15 witness: a padded title beyond the length bound and a blank content were
\* made into an entity, stripped, which Validate refuses
C15_Witness ==
    /\ last.op = "NewPost"
    /\ last.title = Padded(Str("a", MaxTitleLen + 1))
    /\ ent.title = Str("a", MaxTitleLen + 1)
    /\ last.content = Str("\t", 1)
    /\ ent.content = <<>>
    /\ Validate(ent) # Nil

\* ---------------------------------------------------------------- C16
\* the number of documents an offset skips, of n
C16_Skipped(offset, n) ==
    IF (\A i \in 2..IntLimbs : offset[i] = 0) /\ offset[1] < n THEN offset[1] ELSE n

\* posts is what a sort of coll on createdAt, newest first, gives from place
\* skipped + 1 on, limit of it at most: as many posts as are left, none twice,
\* the post at place i with no more than skipped + i - 1 posts newer than it
\* and with at least skipped + i posts as new as it
C16_IsPage(posts, coll, limit, skipped) ==
    /\ Len(posts) = C8_Min(limit, Cardinality(coll) - skipped)
    /\ \A i \in 1..Len(posts) :
          /\ posts[i] \in coll
          /\ \A j \in 1..Len(posts) : posts[i] = posts[j] => i = j
          /\ Cardinality({x \in coll : x.createdAt > posts[i].createdAt})
                <= skipped + i - 1
          /\ Cardinality({x \in coll : x.createdAt >= posts[i].createdAt})
                >= skipped + i

\* C16: FindAll(limit, offset) filters nothing and returns the stored posts
\* newest first by createdAt, without the first offset of them and limit of
\* them at most; the collection is what it was.
C16_FindAll ==
    /\ store = StoreOf(Cardinality(store))
    /\ (last.op = "GetPosts" /\ last.err = Nil) =>
          /\ last.calls[1][1] = "FindAll"
          /\ last.dbops[1] = "Find"
          /\ C16_IsPage(last.posts, store, last.calls[1][2],
                        C16_Skipped(last.calls[1][3], Cardinality(store)))

\* C16 witness: of 15 posts FindAll(7, 7) returned the 7 posts that are eighth
\* to fourteenth newest
C16_Witness ==
    /\ last.op = "GetPosts"
    /\ last.err = Nil
    /\ Cardinality(store) = 15
    /\ last.calls[1][2] = 7
    /\ last.calls[1][3] = GoInt(7)
    /\ Len(last.posts) = 7
    /\ last.posts[1].createdAt = 8
    /\ last.posts[7].createdAt = 2

\* ---------------------------------------------------------------- C17
\* text contains q as it is written, letter case aside
C17_Contains(text, q) ==
    LET t == Expand(text)
        w == Expand(q)
    IN  \E at \in 0..(Len(t) - Len(w)) :
            \A j \in 1..Len(w) : Fold(w[j]) = Fold(t[at + j])

C17_Matching(coll, q) ==
    {d \in coll : C17_Contains(d.title, q) \/ C17_Contains(d.content, q)}

\* what Search(query, limit, offset) returned is the page of the posts that
\* contain the query
C17_Literal ==
    /\ last.err = Nil
    /\ last.calls[1][1] = "Search"
    /\ C16_IsPage(last.posts, C17_Matching(store, last.query), last.calls[1][2],
                  C16_Skipped(last.calls[1][3],
                              Cardinality(C17_Matching(store, last.query))))

\* C17 as stated: Search(query, limit, offset) returns exactly the stored
\* posts whose title or content contains query as a literal substring,
\* compared case-insensitively, ordered and paged as FindAll does, for every
\* query string.  (The page numbers are those whose offset does not wrap.)
C17_Original ==
    (last.op = "SearchPosts" /\ last.fault = 0 /\ C7_SmallPage(last.page)) =>
        C17_Literal

\* the characters of a query that $regex does not take as they are written
C17_Special == {".", "(", ")", "*", "+", "?", "[", "]", "{", "}", "^", "$", "|", "\\"}

\* C17 for the queries in which every character stands for itself
C17_PlainQueries ==
    ( /\ last.op = "SearchPosts" /\ last.fault = 0 /\ C7_SmallPage(last.page)
      /\ \A i \in 1..Len(last.query) : last.query[i][1] \notin C17_Special ) =>
        C17_Literal

\* ---------------------------------------------------------------- C18
\* the number of posts the pages of limit posts hold from page k on, as
\* Search (a query given) or FindAll returns them
RECURSIVE C18_Yielded(_, _, _, _, _)
C18_Yielded(coll, order, q, limit, k) ==
    LET offset == GoInt(k * limit)
        page == IF q = <<"all">>
                THEN RepoFindAll(coll, limit, offset, order, TRUE).posts
                ELSE RepoSearch(coll, q[1], limit, offset, order, TRUE).posts
    IN  IF page = <<>> THEN 0
        ELSE Len(page) + C18_Yielded(coll, order, q, limit, k + 1)

\* C18: on a fixed collection Count() is the number of posts FindAll yields
\* over all pages and CountSearch(q) the number Search(q) yields over all
\* pages, and the totalPages of SearchPosts is that number divided by the page
\* size, rounded up.
C18_CountsAgree ==
    /\ last = NoLast =>
          \A order \in SortedOrders(store), limit \in {1, 2, 7, DefaultPageSize} :
              /\ RepoCount(store, TRUE).total
                    = C18_Yielded(store, order, <<"all">>, limit, 0)
              /\ \A q \in Queries :
                    RegexCompiles(q) =>
                        RepoCountSearch(store, q, TRUE).total
                            = C18_Yielded(store, order, <<q>>, limit, 0)
    /\ (last.op = "SearchPosts" /\ last.err = Nil) =>
          \A order \in SortedOrders(store) :
              last.totalPages
                  = C8_Ceil(C18_Yielded(store, order, <<last.query>>, last.calls[1][2], 0),
                            last.calls[1][2])

\* C18 witness: a search that 10 of 15 posts match, in pages of 7, gave 2 pages
C18_Witness ==
    /\ last.op = "SearchPosts"
    /\ last.err = Nil
    /\ Cardinality(store) = 15
    /\ Cardinality(SearchFilter(store, last.query)) = 10
    /\ last.calls[1][2] = 7
    /\ last.totalPages = 2

\* ---------------------------------------------------------------- C19
\* the titles and contents the requests send, as they are stored: together
C19_Pairs == { << <<<<"A", 1>>>>, <<<<"B", 1>>>> >>, << <<<<"C", 1>>>>, <<<<"D", 1>>>> >> }

\* request r's UpdatePost is at its store Update in this step
C19_Saves(r) ==
    /\ req[r].op = "UpdatePost" /\ req[r].pc = "save" /\ req'[r].pc = "done"
    /\ ObjectIDFromHex(req[r].id).oid \in IDs(store)

\* C19: updates of one post that run side by side are last write wins, with
\* no version check: an UpdatePost that found the post and passed validation
\* succeeds however the other requests have moved meanwhile, and leaves the
\* stored title and content both its own; nothing but a store write changes a
\* stored post, so the stored title and content are always together those of
\* the request that wrote last, never the title of one and the content of
\* another.
C19_LastWriteWins ==
    [][ /\ \A r \in Requests :
              C19_Saves(r) =>
                  /\ req'[r].err = Nil
                  /\ \E d \in store, d2 \in store' :
                        /\ d.id = ObjectIDFromHex(req[r].id).oid
                        /\ d2 = [d EXCEPT !.title = d2.title, !.content = d2.content,
                                          !.updatedAt = d2.updatedAt]
                        /\ IsStripped(req[r].in.title, d2.title)
                        /\ IsStripped(req[r].in.content, d2.content)
                        /\ store' = (store \ {d}) \cup {d2}
                        /\ req'[r].post = d2
        /\ store' # store =>
              \E r \in Requests : req[r].pc \in {"insert", "save"} /\ req'[r].pc = "done"
        /\ \A d \in store' : <<d.title, d.content>> \in C19_Pairs
      ]_vars

\* C19 witness: two UpdatePost requests for the same post with different
\* titles and contents both succeeded; the one whose write came last, and is
\* stored, had read the clock before the other
C19_Witness ==
    \E r \in Requests, q \in Requests :
        /\ req[r].op = "UpdatePost" /\ req[r].pc = "done" /\ req[r].err = Nil
        /\ req[q].op = "UpdatePost" /\ req[q].pc = "done" /\ req[q].err = Nil
        /\ req[r].id = req[q].id
        /\ req[r].post.title # req[q].post.title
        /\ req[r].post.content # req[q].post.content
        /\ req[q].post \in store
        /\ req[q].post.updatedAt < req[r].post.updatedAt

\* ---------------------------------------------------------------- C20
\* the answer to an identifier error of the service is a client error
C20_ClientError ==
    /\ last.err = ErrPostNotFound => last.status = StatusNotFound
    /\ last.err \in {ErrPostNotFound, ErrInvalidID} =>
          (last.status >= 400 /\ last.status < 500)

\* C20 as stated: in every handler that takes an identifier (single-post
\* view, edit form, update, delete) NotFound from the service is answered with
\* 404 and InvalidID with a 4xx status, never with a 5xx status.
C20_Original ==
    last.op \in {"ShowPost", "ShowEditForm", "UpdatePostHandler", "DeletePostHandler"} =>
        C20_ClientError

\* C20 for the single-post view, the edit form and the update
C20_ViewEditUpdate ==
    last.op \in {"ShowPost", "ShowEditForm", "UpdatePostHandler"} => C20_ClientError

\* ---------------------------------------------------------------- C21
C21_Handlers ==
    {"Index", "PostsList", "CreatePostHandler", "ShowPost", "ShowEditForm",
     "UpdatePostHandler", "DeletePostHandler"}

\* C21 as stated: a failure of the store other than NotFound and InvalidID
\* that the service returns is answered by every handler (list, view, create,
\* update, delete) with a 5xx status, never with a 4xx status.
C21_Original ==
    (last.op \in C21_Handlers /\ last.err = ErrStore) =>
        (last.status >= 500 /\ last.status < 600)

\* C21 for the two list handlers and the delete handler
C21_ListDelete ==
    (last.op \in {"Index", "PostsList", "DeletePostHandler"} /\ last.err = ErrStore) =>
        last.status = StatusInternalServerError

\* ---------------------------------------------------------------- C22
\* the answer to a form whose input fails the rules with the message verr
C22_Refused(verr) ==
    /\ last'.status = StatusBadRequest
    /\ last'.message = verr
    /\ last'.formTitle = last'.title
    /\ last'.formContent = last'.content
    /\ store' = store

\* a create request
C22_Creates == last = NoLast /\ last'.op = "CreatePostHandler"

\* an update request for a stored post
C22_Updates ==
    /\ last = NoLast
    /\ last'.op \in {"UpdatePostHandler", "PUT no route"}
    /\ ObjectIDFromHex(last'.id).oid \in IDs(store)

\* C22 as stated: when the input of a create or of an update fails the rules
\* of the entity, the answer has status 400, its view data carries the message
\* of the first violation and the title and content as submitted, and nothing
\* is persisted.
C22_Original ==
    [][ \A verr \in {Validate(NewPost(last'.title, last'.content, 0))} :
            ((C22_Creates \/ C22_Updates) /\ verr # Nil) => C22_Refused(verr)
      ]_vars

\* C22 for create requests
C22_Create ==
    [][ \A verr \in {Validate(NewPost(last'.title, last'.content, 0))} :
            (C22_Creates /\ verr # Nil) => C22_Refused(verr)
      ]_vars

\* ---------------------------------------------------------------- C23
\* C23 as stated: a PUT request for /posts/{id}, id the identifier of a
\* stored post, with a valid title and content is handed to the update
\* handler with that id, is answered with status 200 (500 when the template
\* of the row fails), and FindByID on the id then returns the new title and
\* content.
C23_Original ==
    [][ ( /\ last = NoLast
          /\ last'.op \in {"UpdatePostHandler", "PUT no route"}
          /\ ObjectIDFromHex(last'.id).oid \in IDs(store)
          /\ Validate(NewPost(last'.title, last'.content, 0)) = Nil
          /\ last'.fault = 0 )
        => /\ last'.op = "UpdatePostHandler"
           /\ last'.param = last'.id
           /\ last'.status \in {StatusOK, StatusInternalServerError}
           /\ \A found \in {RepoFindByID(store', last'.id, TRUE)} :
                 /\ found.err = Nil
                 /\ found.post.title = TrimSpace(last'.title)
                 /\ found.post.content = TrimSpace(last'.content)
      ]_vars

\* ---------------------------------------------------------------- C24
C24_Requests ==
    {"Index", "PostsList", "ShowCreateForm", "CreatePostHandler", "ShowPost",
     "ShowEditForm", "UpdatePostHandler", "DeletePostHandler"}

\* C24 as stated: every recognized route (list, single-post view, create,
\* update, delete, show-create-form, show-edit-form) invokes exactly one
\* service method per request, on its success path and on every error path.
C24_Original == last.op \in C24_Requests => Len(last.calls) = 1

\* C24, amended: the list handlers call GetPosts, or SearchPosts when there
\* is a search, once; create calls CreatePost once and delete DeletePost
\* once; the single-post view and the edit form call GetPost once when the
\* request has an id and no service method when it has none; the create form
\* calls no service method; update calls UpdatePost once and, when that
\* returns an error, GetPost once after it.
C24_ServiceCalls ==
    /\ last.op \in {"Index", "PostsList"} =>
          last.calls = IF last.query # <<>> THEN <<"SearchPosts">> ELSE <<"GetPosts">>
    /\ last.op = "ShowCreateForm" => last.calls = <<>>
    /\ last.op = "CreatePostHandler" => last.calls = <<"CreatePost">>
    /\ last.op \in {"ShowPost", "ShowEditForm"} =>
          last.calls = IF last.param = <<>> THEN <<>> ELSE <<"GetPost">>
    /\ last.op = "DeletePostHandler" => last.calls = <<"DeletePost">>
    /\ last.op = "UpdatePostHandler" =>
          last.calls = IF last.err = Nil THEN <<"UpdatePost">>
                       ELSE <<"UpdatePost", "GetPost">>

C24_Witness ==
    /\ last.op = "UpdatePostHandler"
    /\ last.err # Nil
    /\ last.calls = <<"UpdatePost", "GetPost">>

\* ---------------------------------------------------------------- C25
\* the collection and both indexes of the migration are there
C25_Complete(d) ==
    /\ "posts" \in d.collections
    /\ CreatedAtIndex \in d.indexes
    /\ TextIndex \in d.indexes

\* C25: a migration of a database that has the collection "posts" and both
\* indexes succeeds when no driver call fails and leaves the collections, the
\* indexes and the stored posts as they are; every migration that succeeds
\* leaves such a database and the stored posts as they are, so that the next
\* start finds it.
C25_MigrateIdempotent ==
    [][ (last = NoLast /\ last'.op = "migrate") =>
            /\ (C25_Complete(db) /\ last'.fault = 0) =>
                  /\ last'.err = Nil
                  /\ db'.collections = db.collections
                  /\ db'.indexes = db.indexes
                  /\ store' = store
                  /\ "CreateCollection" \notin {last'.dbops[i] : i \in 1..Len(last'.dbops)}
            /\ last'.err = Nil => (C25_Complete(db') /\ store' = store)
      ]_vars

\* a second migration has succeeded on a database with posts
C25_Witness ==
    /\ last.op = "migrate"
    /\ last.again
    /\ last.fault = 0
    /\ last.err = Nil
    /\ store # {}
    /\ "users" \in db.collections

\* ---------------------------------------------------------------- C26
\* C26: an update never creates a deleted post again.  When the post that
\* UpdatePost loaded with FindByID is no longer stored at the time of its
\* store Update, UpdatePost returns NotFound and the collection is left as it
\* is; no stored post ever has the identifier of a deleted one.
C26_NoResurrection ==
    [][ /\ \A r \in Requests :
              ( /\ req[r].op = "UpdatePost"
                /\ req[r].pc = "save" /\ req'[r].pc = "done"
                /\ req[r].post.id \notin IDs(store) )
              => (req'[r].err = ErrPostNotFound /\ store' = store)
        /\ \A d \in store' : d.id \notin deleted'
      ]_vars

\* an update has lost its post to a delete between its FindByID and its Update
C26_Witness ==
    \E r \in Requests, q \in Requests :
        /\ req[r].op = "UpdatePost" /\ req[r].pc = "done"
        /\ req[r].err = ErrPostNotFound
        /\ req[r].post # NoPost
        /\ req[r].post.id \in deleted
        /\ req[q].op = "DeletePost" /\ req[q].pc = "done" /\ req[q].err = Nil
        /\ req[q].id = req[r].id
        /\ req[r].post.id \notin IDs(store)
        /\ store # {}

\* ---------------------------------------------------------------- C27
\* the delete requests for id that have returned err
C27_Deletes(id, err) ==
    {r \in Requests : req[r].op = "DeletePost" /\ req[r].pc = "done" /\
                      req[r].id = id /\ req[r].err = err}

\* C27: DeleteOne removes the one post with the identifier and returns
\* success when there is one, and returns NotFound and changes nothing when
\* there is none; so of the DeletePost requests for one identifier that was
\* stored exactly one succeeds, the others return NotFound, and no other post
\* is touched.
C27_OneDeleteWins ==
    [][ /\ \A r \in Requests :
              (req[r].pc = "idle" /\ req'[r].op = "DeletePost") =>
                  \A oid \in {ObjectIDFromHex(req'[r].id).oid} :
                      /\ IF oid \in IDs(store)
                         THEN /\ req'[r].err = Nil
                              /\ store' = {d \in store : d.id # oid}
                              /\ Cardinality(store') = Cardinality(store) - 1
                              /\ deleted' = deleted \cup {oid}
                         ELSE /\ req'[r].err = ErrPostNotFound
                              /\ store' = store
                              /\ deleted' = deleted
                      /\ Cardinality({q \in Requests :
                                         /\ req'[q].op = "DeletePost"
                                         /\ req'[q].pc = "done"
                                         /\ req'[q].id = req'[r].id
                                         /\ req'[q].err = Nil}) =
                            IF oid \in deleted' THEN 1 ELSE 0
        /\ (\A r \in Requests : req'[r].op = "DeletePost" => req[r].op = "DeletePost")
              => deleted' = deleted
      ]_vars

\* two deletes of the same stored post have returned, another post is stored
C27_Witness ==
    \E r \in Requests, q \in Requests, id \in RepoIDs :
        /\ r # q
        /\ r \in C27_Deletes(id, Nil)
        /\ q \in C27_Deletes(id, ErrPostNotFound)
        /\ \A x \in Requests \ {r, q} : req[x].op \notin {"DeletePost", "CreatePost"}
        /\ Cardinality(store) = MaxPosts - 1

\* ---------------------------------------------------------------- C28
\* the list requests that have returned without error
C28_Listed ==
    {r \in Requests : req[r].op \in {"GetPosts", "SearchPosts"} /\
                      req[r].pc = "done" /\ req[r].err = Nil}

C28_Matching(r, coll) ==
    IF req'[r].op = "GetPosts" THEN coll ELSE SearchFilter(coll, req'[r].query)

C29_Walked == req.next > req.totalPages + 1

\* every stored post once, newest first, and nothing after the last page
C29_EachOnce ==
    /\ req.err = Nil
    /\ Len(req.seen) = Cardinality(store)
    /\ {req.seen[i] : i \in 1..Len(req.seen)} = store
    /\ \A i \in 1..Len(req.seen), j \in 1..Len(req.seen) :
          i < j => req.seen[i].createdAt >= req.seen[j].createdAt
    /\ req.beyond = <<>>

\* C29 as stated: with no writes and one page size, the pages 1 .. totalPages
\* of GetPosts return every stored post exactly once, in descending order of
\* createdAt across the pages, also when posts share a createdAt; a page
\* after totalPages is empty, without error.
C29_Original == C29_Walked => C29_EachOnce

\* C29 for collections whose posts all differ in createdAt
C29_DistinctTimes ==
    (C29_Walked /\ \A a \in store, b \in store : a # b => a.createdAt # b.createdAt)
        => C29_EachOnce

\* ---------------------------------------------------------------- C30
\* C30 as stated: for every positive page number that fits the machine int
\* and every page size, the offset that GetPosts and SearchPosts pass to the
\* store is not negative and is the number (page - 1) * pageSize of the
\* normalized page and page size itself, not wrapped around.
C30_Original ==
    (last.op \in {"GetPosts", "SearchPosts"} /\ ~LessThanOne(last.page)) =>
        /\ ~IsNegative(last.calls[1][3])
        /\ C7_IsProduct(last.calls[1][3], Dec(last.page), C7_PageSize(last.pageSize))

\* C30 for the positive page numbers below 2^16
C30_SmallPages ==
    (last.op \in {"GetPosts", "SearchPosts"} /\ ~LessThanOne(last.page)
        /\ C7_SmallPage(last.page)) =>
        /\ ~IsNegative(last.calls[1][3])
        /\ C7_IsProduct(last.calls[1][3], Dec(last.page), C7_PageSize(last.pageSize))

====
